---- MODULE Spec2Model ----
(***************************************************************************)
(* Telamon: the candidate / search-space layer (candidate.rs,              *)
(* search_space/mod.rs) and the asynchronous evaluation harness            *)
(* (backend/cuda/src/context.rs, telamon-explorer/src/lib.rs).             *)
(*                                                                         *)
(* SpecSearch    : candidates, reference-counted IR, action application,   *)
(*                 apply_choice, replay of a recorded action list.         *)
(* SpecAsync     : Context::async_eval, its explorer threads, its          *)
(*                 evaluation thread and the bounded channel between them. *)
(* SpecAsyncFair : SpecAsync with every thread scheduled again and again.  *)
(* SpecLog       : the logger thread and the channel of its messages.      *)
(* SpecRuntime   : Context::eval_runtime, the measurement of a candidate.  *)
(* SpecCounter   : a counter, its increments and the update_counter        *)
(*                 action (telamon-gen).                                   *)
(* SpecChoice    : the on-change actions of a choice and their inverse     *)
(*                 for the symmetric (telamon-gen/src/ir/choice.rs).       *)
(* SpecStore     : the store of a symmetric choice.                        *)
(* SpecOperator  : Operator::check (ir/operator.rs).                       *)
(* SpecSize      : codegen::Size (codegen/size.rs).                        *)
(* SpecOffsets   : wrap_access_offsets (backend/cuda/src/mem_model.rs).    *)
(* SpecMemInfo   : the analysis of a global memory access (mem_model.rs).  *)
(* SpecOpt       : CommonOpt::config (telamon-cli/src/lib.rs).             *)
(* SpecCandidate : Candidate::with_actions next to apply_decision.         *)
(* SpecGen       : gen_space (telamon-explorer/src/lib.rs), with a fair    *)
(*                 loop.                                                   *)
(* SpecMppa      : the writeback buffers of the MPPA context               *)
(*                 (backend/mppa/src/context.rs).                          *)
(* SpecTestBound : Bounds::test_bound (telamon-cli/src/bin/tlcli.rs).      *)
(***************************************************************************)
EXTENDS Integers, Sequences, FiniteSets, TLC

VARIABLES
    heap,       \* Arc<ir::Function> cells: address -> [rc, fun]
    cands,      \* the candidates built so far (the search tree's nodes)
    parentOf,   \* history: index of the candidate each candidate was derived from
    last,       \* history: the last call, its receiver before the call and its result
    wpc,        \* explorer threads: where each one is in explore_space's loop
    wcand,      \* explorer threads: the candidate each one is about to send
    queue,      \* the sync_channel's buffer
    send,       \* async_eval still holds the original SyncSender
    epc,        \* the evaluation thread: where it is in its loop
    ecand,      \* the evaluation thread: the candidate it has received
    best_eval,  \* the evaluation thread's best_eval
    mpc,        \* the thread that called async_eval
    next_cand,  \* the id of the next candidate the store hands out
    sent,       \* history: ids of the candidates whose send returned Ok
    received,   \* history: ids of the candidates recv returned
    failed,     \* history: ids of the candidates eval_runtime returned Err for
    called,     \* history: id -> the evaluations its callback was called with
    dev_ops,    \* history: the uses of the executor, each with the thread that made it
    mon,        \* the monitor thread: running or stopped
    mbest,      \* the monitor's best candidate and its evaluation
    mseen,      \* history: ids of the candidates whose evaluation reached the monitor
    lpc,        \* the logger thread: where it is in logger::log
    eventlog,   \* the logger thread: record_writer is Some
    lqueue,     \* the log channel's buffer
    lsent,      \* log sender -> the number of messages it has sent
    larrived,   \* history: the messages in the order they entered the channel
    lwritten,   \* the messages written, in the order they were written
    rcall,      \* eval_runtime: the arguments and the device's answers of the last call
    rres,       \* eval_runtime: what the last call returned
    cdef,       \* the counter: its definition, once registered
    cincr,      \* increment site -> the domain of the increment's choice
    cval,       \* increment site -> the domain of the value's choice
    cnt,        \* the domain stored for the counter
    cdiff,      \* the changes of domain whose actions have not run yet, newest first
    cfailed,    \* the propagation of the counter's store has failed
    ychoice,    \* the choice of the description: its arguments, once created
    on_change,  \* Choice::on_change: the actions registered on the choice
    sym_change, \* the actions generated for the symmetric of the choice
    ystore,     \* the store of the choice: arguments -> domain
    ocall,      \* Operator::check: the operator checked and what the function answers
    ores,       \* Operator::check: what the call returned
    size,       \* codegen::Size: the size built by Size::new, then multiplied
    zpc,        \* codegen::Size: no size yet, a size, or a panic
    zint,       \* codegen::Size: what the last as_int returned for the size
    offcall,    \* wrap_access_offsets: the arguments of the last call
    offres,     \* wrap_access_offsets: what the last call returned
    memcall,    \* mem_model::analyse: the function, the sizes and the device of the last call
    meminfo,    \* mem_model::analyse: the MemInfo the last call returned
    optcall,    \* CommonOpt::config: the options and the configuration file of the last call
    optres,     \* CommonOpt::config: what the last call returned
    stats_printed, \* launch_search: candidate_store.print_stats() has been called
    gpc,        \* gen_space: not called yet, in its loop, or returned
    stack,      \* gen_space: the stack of the candidates still to visit
    gheap,      \* gen_space: the Arc<ir::Function> cells of its candidates
    total,      \* gen_space: the number of candidates popped
    nodes,      \* history: the candidates on_node was called with, in order
    leaves,     \* history: the candidates on_leaf was called with, in order
    writeback_slots, \* Context::writeback_slots: the number of buffers in the pool
    kpc,        \* MPPA: what each worker thread is doing
    kchan,      \* MPPA: the number of payloads in the channel of async_eval
    kepc,       \* MPPA: the position of the evaluation thread
    kernel_id,  \* ATOMIC_KERNEL_ID
    dropped,    \* history: the writeback buffers dropped so far
    num_tested, \* test_bound: the shared counter
    tpc,        \* test_bound: the position of each worker in its loop
    submitted,  \* history: the candidates handed to evaluator.add_kernel
    descents    \* history: the random descents that found no leaf

svars == <<heap, cands, parentOf, last>>
avars == <<wpc, wcand, queue, send, epc, ecand, best_eval, mpc, next_cand,
           sent, received, failed, called, dev_ops, mon, mbest, mseen>>
mvars == <<mon, mbest, mseen>>
lvars == <<lpc, eventlog, lqueue, lsent, larrived, lwritten>>
rvars == <<rcall, rres>>
cvars == <<cdef, cincr, cval, cnt, cdiff, cfailed>>
yvars == <<ychoice, on_change, sym_change, ystore>>
ovars == <<ocall, ores>>
zvars == <<size, zpc, zint>>
fvars == <<offcall, offres>>
gvars == <<memcall, meminfo>>
pvars == <<optcall, optres>>
tvars == <<stats_printed>>
xvars == <<gpc, stack, gheap, total, nodes, leaves>>
kvars == <<writeback_slots, kpc, kchan, kepc, kernel_id, dropped>>
bvars == <<num_tested, tpc, submitted, descents>>
vars == <<heap, cands, parentOf, last, wpc, wcand, queue, send, epc, ecand,
          best_eval, mpc, next_cand, sent, received, failed, called, dev_ops,
          mon, mbest, mseen,
          lpc, eventlog, lqueue, lsent, larrived, lwritten,
          rcall, rres, cdef, cincr, cval, cnt, cdiff, cfailed,
          ychoice, on_change, sym_change, ystore, ocall, ores, size, zpc, zint,
          offcall, offres,
          memcall, meminfo,
          optcall, optres,
          stats_printed,
          gpc, stack, gheap, total, nodes, leaves,
          writeback_slots, kpc, kchan, kepc, kernel_id, dropped,
          num_tested, tpc, submitted, descents>>

\* What each part of the model leaves alone.
notSearch == <<avars, lvars, rvars, cvars, yvars, ovars, zvars, fvars, gvars, pvars, tvars, xvars, kvars, bvars>>
notAsync == <<svars, lvars, rvars, cvars, yvars, ovars, zvars, fvars, gvars, pvars, tvars, xvars, kvars, bvars>>
notLog == <<svars, avars, rvars, cvars, yvars, ovars, zvars, fvars, gvars, pvars, tvars, xvars, kvars, bvars>>
notRuntime == <<svars, avars, lvars, cvars, yvars, ovars, zvars, fvars, gvars, pvars, tvars, xvars, kvars, bvars>>
notCounter == <<svars, avars, lvars, rvars, yvars, ovars, zvars, fvars, gvars, pvars, tvars, xvars, kvars, bvars>>
notChoice == <<svars, avars, lvars, rvars, cvars, ovars, zvars, fvars, gvars, pvars, tvars, xvars, kvars, bvars>>
notOperator == <<svars, avars, lvars, rvars, cvars, yvars, zvars, fvars, gvars, pvars, tvars, xvars, kvars, bvars>>
notSize == <<svars, avars, lvars, rvars, cvars, yvars, ovars, fvars, gvars, pvars, tvars, xvars, kvars, bvars>>
notOffsets == <<svars, avars, lvars, rvars, cvars, yvars, ovars, zvars, gvars, pvars, tvars, xvars, kvars, bvars>>
notMemInfo == <<svars, avars, lvars, rvars, cvars, yvars, ovars, zvars, fvars, pvars, tvars, xvars, kvars, bvars>>
notOpt == <<svars, avars, lvars, rvars, cvars, yvars, ovars, zvars, fvars, gvars, tvars, xvars, kvars, bvars>>
notStats == <<svars, avars, lvars, rvars, cvars, yvars, ovars, zvars, fvars, gvars, pvars, xvars, kvars, bvars>>
notGen == <<svars, avars, lvars, rvars, cvars, yvars, ovars, zvars, fvars, gvars, pvars, tvars, kvars, bvars>>
notMppa == <<svars, avars, lvars, rvars, cvars, yvars, ovars, zvars, fvars, gvars, pvars, tvars, xvars, bvars>>
notTestBound == <<svars, avars, lvars, rvars, cvars, yvars, ovars, zvars, fvars, gvars, pvars, tvars, xvars, kvars>>

(***************************************************************************)
(* Bounds of the model.                                                    *)
(***************************************************************************)
MaxCands == 3        \* candidates kept in the tree
NumWorkers == 2      \* config.num_workers
MaxExplored == 2     \* candidates the store hands out before it is exhausted
MaxTicks == 2        \* the longest execution time the device reports
NumLogSenders == 2   \* threads holding a sender of the log channel
MaxLogMsgs == 2      \* messages each of them sends
MaxOutliers == 5     \* run times above, and below, the usual one in a measurement
NumSites == 2        \* increment sites of the counter
MaxActions == 2      \* on-change actions registered on a choice
NumObjs == 3         \* objects of the set a symmetric choice ranges over
MaxParams == 2       \* parameters in the dividend of a size
MaxTimeout == 9      \* the longest timeout, in minutes
MaxStart == 2        \* decisions taken before gen_space is given the space
MaxKernels == 34     \* calls of setup_kernel on the MPPA context
num_runs == 2        \* the --num-runs option of tlcli bounds
MaxDescents == 2     \* random descents that find no leaf
MaxVal == 2          \* the largest value an increment site adds or multiplies

(***************************************************************************)
(* The value universe of the (enum bitset) choices, the dimensions of the  *)
(* kernel built by the builder and its memory blocks with a layout still   *)
(* to lower.                                                               *)
(***************************************************************************)
Values == {1, 2, 3}
InitDims == {0, 1}
Mems == {0, 1}

Min(S) == CHOOSE x \in S : \A y \in S : x <= y

RECURSIVE SumOver(_, _)
SumOver(f, S) ==
    IF S = {} THEN 0
    ELSE LET k == CHOOSE x \in S : TRUE IN f[k] + SumOver(f, S \ {k})

(***************************************************************************)
(* ir::Function, as far as the search space reads it: the dimensions, the  *)
(* id counter and the layouts still to lower.                              *)
(***************************************************************************)
InitFun == [dims |-> InitDims, next_id |-> 2, layouts_to_lower |-> Mems]

(***************************************************************************)
(* std::sync::Arc over the heap of IR cells.                               *)
(***************************************************************************)
NewAddr(h) == CHOOSE a \in 1..(Cardinality(DOMAIN h) + 1) : a \notin DOMAIN h

ArcClone(h, a) == [h EXCEPT ![a].rc = @ + 1]

ArcDrop(h, a) ==
    IF h[a].rc = 1
    THEN [x \in (DOMAIN h) \ {a} |-> h[x]]
    ELSE [h EXCEPT ![a].rc = @ - 1]

\* A plausible slip: mutating the shared function in place.
ArcMakeMutInPlace(h, a) == [heap |-> h, addr |-> a]

\* Arc::make_mut: the cell itself when it is not shared, a private copy otherwise.
ArcMakeMut(h, a) ==
    IF h[a].rc = 1
    THEN [heap |-> h, addr |-> a]
    ELSE LET n == NewAddr(h)
         IN [heap |-> [x \in (DOMAIN h) \cup {n} |->
                          IF x = n THEN [rc |-> 1, fun |-> h[a].fun]
                          ELSE IF x = a THEN [h[a] EXCEPT !.rc = @ - 1]
                          ELSE h[x]],
             addr |-> n]

(***************************************************************************)
(* The decision store and the propagation engine (generated code).         *)
(***************************************************************************)
\* DomainStore::new: every choice starts with its universe.
DomainStoreNew(fun) == [d \in fun.dims |-> Values]

\* DomainStore::alloc: entries for the objects a lowering created.
DomainAlloc(dom, new_objs) ==
    [d \in (DOMAIN dom) \cup new_objs |-> IF d \in DOMAIN dom THEN dom[d] ELSE Values]

\* Propagation to the fixpoint of the filters: once a dimension's choice is
\* decided, no other dimension may take the same value.  An empty domain
\* makes the step fail.
RECURSIVE Propagate(_)
Propagate(dom) ==
    IF \E k \in DOMAIN dom : dom[k] = {}
    THEN [ok |-> FALSE, domain |-> dom]
    ELSE LET pend == {p \in (DOMAIN dom) \X (DOMAIN dom) :
                         /\ p[1] # p[2]
                         /\ Cardinality(dom[p[1]]) = 1
                         /\ dom[p[1]] \cap dom[p[2]] # {}}
         IN IF pend = {}
            THEN [ok |-> TRUE, domain |-> dom]
            ELSE LET p == CHOOSE q \in pend : TRUE
                 IN Propagate([dom EXCEPT ![p[2]] = @ \ dom[p[1]]])

\* choices::apply_decisions: restrict, then propagate, action after action.
RECURSIVE ApplyDecisions(_, _)
ApplyDecisions(dom, actions) ==
    IF actions = <<>>
    THEN Propagate(dom)
    ELSE LET a == Head(actions)
         IN IF a.key \notin DOMAIN dom
            THEN [ok |-> FALSE, domain |-> dom]
            ELSE LET r == Propagate([dom EXCEPT ![a.key] = @ \cap a.allowed])
                 IN IF r.ok THEN ApplyDecisions(r.domain, Tail(actions)) ELSE r

\* A bound that looks at the widest alternative instead of the cheapest one.
BoundOfMax(dom) ==
    SumOver([k \in DOMAIN dom |-> CHOOSE x \in dom[k] : \A y \in dom[k] : y <= x],
            DOMAIN dom)

\* model::bound: a lower bound of the run time of every implementation left.
BoundOf(dom) == SumOver([k \in DOMAIN dom |-> Min(dom[k])], DOMAIN dom)

(***************************************************************************)
(* Actions (ActionEx).                                                     *)
(***************************************************************************)
Restriction(k, allowed) ==
    [type |-> "Action", key |-> k, allowed |-> allowed,
     mem |-> 0, st_dims |-> <<>>, ld_dims |-> <<>>]

LowerLayout(m, st, ld) ==
    [type |-> "LowerLayout", key |-> 0, allowed |-> {},
     mem |-> m, st_dims |-> st, ld_dims |-> ld]

\* A decision fixes the value of a choice.
AllowedSets == {{v} : v \in Values}

\* The actions the drivers offer on a space: a restriction of one of its
\* choices, or the lowering of a layout from its store to its load dimension.
ActionsOn(dom) ==
    {Restriction(k, s) : k \in DOMAIN dom, s \in AllowedSets}
    \cup {LowerLayout(m, <<0>>, <<1>>) : m \in Mems}

\* The sequences without repetition over a set.
Perms(S) ==
    UNION {{f \in [1..k -> S] : \A a, b \in 1..k : a # b => f[a] # f[b]} :
           k \in 0..Cardinality(S)}

\* The choices the enumeration offers on a space: the alternative values of
\* one decision, in any order, or the lowering of one layout.
ChoicesOn(dom) ==
    {[n \in 1..Len(vs) |-> Restriction(k, {vs[n]})] : k \in DOMAIN dom, vs \in Perms(Values)}
    \cup {<<LowerLayout(m, <<0>>, <<1>>)>> : m \in Mems}

RECURSIVE Reverse(_)
Reverse(s) == IF s = <<>> THEN <<>> ELSE Append(Reverse(Tail(s)), Head(s))

(***************************************************************************)
(* SearchSpace.                                                            *)
(***************************************************************************)
\* SearchSpace::apply_decisions: the store is updated in place.
WithDomain(h, space, r) ==
    [ok |-> r.ok, heap |-> h, space |-> [space EXCEPT !.domain = r.domain]]

SpaceApplyDecisions(h, space, actions) ==
    WithDomain(h, space, ApplyDecisions(space.domain, actions))

RECURSIVE SeqToActions(_, _)
SeqToActions(dims, allowed) ==
    IF dims = <<>> THEN <<>>
    ELSE <<Restriction(Head(dims), allowed)>> \o SeqToActions(Tail(dims), allowed)

\* dim_map::lower_layout: the layout of `mem` is fixed, the object that holds
\* it gets a fresh id, and the store and load dimensions cannot take value 3.
DimMapLowerLayout(fun, mem, st_dims, ld_dims) ==
    IF mem \notin fun.layouts_to_lower
    THEN [ok |-> FALSE, fun |-> fun, new_objs |-> {}, actions |-> <<>>]
    ELSE [ok |-> TRUE,
          fun |-> [dims |-> fun.dims \cup {fun.next_id},
                   next_id |-> fun.next_id + 1,
                   layouts_to_lower |-> fun.layouts_to_lower \ {mem}],
          new_objs |-> {fun.next_id},
          actions |-> SeqToActions(st_dims \o ld_dims, Values \ {3})]

\* A plausible slip: building the store anew after the lowering instead of
\* allocating the new objects only.
LoweredReset(mm, space, lo) ==
    IF ~lo.ok
    THEN [ok |-> FALSE, heap |-> mm.heap,
          space |-> [space EXCEPT !.ir_instance = mm.addr]]
    ELSE SpaceApplyDecisions(
             [mm.heap EXCEPT ![mm.addr].fun = lo.fun],
             [space EXCEPT !.ir_instance = mm.addr,
                           !.domain = DomainStoreNew(lo.fun)],
             lo.actions)

\* SearchSpace::lower_layout, once dim_map::lower_layout has run on the
\* function `mm` designates: its error is returned, else the new objects are
\* allocated in the store and the actions it asks for are applied.
Lowered(mm, space, lo) ==
    IF ~lo.ok
    THEN [ok |-> FALSE, heap |-> mm.heap,
          space |-> [space EXCEPT !.ir_instance = mm.addr]]
    ELSE SpaceApplyDecisions(
             [mm.heap EXCEPT ![mm.addr].fun = lo.fun],
             [space EXCEPT !.ir_instance = mm.addr,
                           !.domain = DomainAlloc(@, lo.new_objs)],
             lo.actions)

\* A plausible slip: the id of the new dimension drawn from a counter shared
\* by all the live functions instead of the function's own.
LowerLayoutSharedIds(mm, space, mem, st_dims, ld_dims) ==
    Lowered(mm, space,
            DimMapLowerLayout(
                [mm.heap[mm.addr].fun EXCEPT
                     !.next_id = @ + Cardinality(DOMAIN mm.heap)],
                mem, st_dims, ld_dims))

\* SearchSpace::lower_layout, once Arc::make_mut has given the function to
\* lower.
LowerLayoutIn(mm, space, mem, st_dims, ld_dims) ==
    Lowered(mm, space,
            DimMapLowerLayout(mm.heap[mm.addr].fun, mem, st_dims, ld_dims))

\* SearchSpace::lower_layout
SpaceLowerLayout(h, space, mem, st_dims, ld_dims) ==
    LowerLayoutIn(ArcMakeMut(h, space.ir_instance), space, mem, st_dims, ld_dims)

(***************************************************************************)
(* Candidate.                                                              *)
(***************************************************************************)
\* A candidate built with the depth of Candidate::new whatever its actions.
with_actions_depth0(space, bound, actions) ==
    [space |-> space, bound |-> bound, depth |-> 0, actions |-> actions]

\* Candidate::with_actions
with_actions(space, bound, actions) ==
    [space |-> space, bound |-> bound, depth |-> Len(actions), actions |-> actions]

\* Candidate::new
CandidateNew(space, bound) == with_actions(space, bound, <<>>)

\* Candidate::apply_decision, once the action has been applied to the clone
\* of the space: the clone is dropped on error, else the child gets the new
\* bound and the action at the front of its list.
Child(c, action, r) ==
    IF ~r.ok
    THEN [ok |-> FALSE, heap |-> ArcDrop(r.heap, r.space.ir_instance), cand |-> c]
    ELSE [ok |-> TRUE, heap |-> r.heap,
          cand |-> [space |-> r.space,
                    bound |-> BoundOf(r.space.domain),
                    depth |-> c.depth + 1,
                    actions |-> <<action>> \o c.actions]]

\* Candidate::apply_decision.  The result holds the heap after the call, and
\* the child when the action is feasible.
apply_decision(h, c, action) ==
    Child(c, action,
          IF action.type = "Action"
          THEN SpaceApplyDecisions(ArcClone(h, c.space.ir_instance), c.space,
                                   <<action>>)
          ELSE SpaceLowerLayout(ArcClone(h, c.space.ir_instance), c.space,
                                action.mem, action.st_dims, action.ld_dims))

\* A plausible slip: the children taken while the actions are feasible, so
\* that the first infeasible action ends the list.
CollectWhileOk(r, rest) ==
    [heap |-> rest.heap,
     res |-> IF r.ok THEN <<r.cand>> \o rest.res ELSE <<>>]

\* flat_map(|action| self.apply_decision(context, action).ok()).collect():
\* the child of a feasible action is kept, an infeasible action gives none.
Collect(r, rest) ==
    [heap |-> rest.heap,
     res |-> IF r.ok THEN <<r.cand>> \o rest.res ELSE rest.res]

\* Candidate::apply_choice: the children of the feasible actions, in order.
RECURSIVE apply_choice(_, _, _)
RECURSIVE ChildrenAfter(_, _, _)
ChildrenAfter(r, c, choice) == Collect(r, apply_choice(r.heap, c, choice))

apply_choice(h, c, choice) ==
    IF choice = <<>>
    THEN [heap |-> h, res |-> <<>>]
    ELSE ChildrenAfter(apply_decision(h, c, Head(choice)), c, Tail(choice))

\* actions.iter().fold(Ok(candidate), |c, a| c?.apply_decision(a)): the
\* accumulator is consumed at every step.
RECURSIVE fold_actions(_, _, _)
RECURSIVE FoldAfter(_, _, _)
FoldAfter(r, c, actions) ==
    IF r.ok
    THEN [fold_actions(ArcDrop(r.heap, c.space.ir_instance), r.cand, actions)
              EXCEPT !.applied = @ + 1]
    ELSE [ok |-> FALSE, heap |-> ArcDrop(r.heap, c.space.ir_instance),
          cand |-> c, applied |-> 0]

fold_actions(h, c, actions) ==
    IF actions = <<>>
    THEN [ok |-> TRUE, heap |-> h, cand |-> c, applied |-> 0]
    ELSE FoldAfter(apply_decision(h, c, Head(actions)), c, Tail(actions))

\* SearchSpace::new
SearchSpaceNew(addr, fun) ==
    [ir_instance |-> addr, domain |-> ApplyDecisions(DomainStoreNew(fun), <<>>).domain]

(***************************************************************************)
(* What a candidate is, whatever cell holds its function.                   *)
(***************************************************************************)
Snap(h, c) ==
    [domain |-> c.space.domain, fun |-> h[c.space.ir_instance].fun,
     bound |-> c.bound, depth |-> c.depth, actions |-> c.actions]

RECURSIVE Snaps(_, _)
Snaps(h, cs) == IF cs = <<>> THEN <<>> ELSE <<Snap(h, Head(cs))>> \o Snaps(h, Tail(cs))

NoSnap == [domain |-> <<>>, fun |-> InitFun, bound |-> 0, depth |-> 0, actions |-> <<>>]

NoLast ==
    [op |-> "none", parent |-> 0, choice |-> <<>>, ok |-> FALSE,
     before |-> NoSnap, res |-> <<>>, res2 |-> <<>>, ok2 |-> FALSE,
     applied |-> 0, applied2 |-> 0]

(***************************************************************************)
(* The state after the kernel builder: one root candidate.                 *)
(***************************************************************************)
InitTree ==
    /\ heap = (1 :> [rc |-> 1, fun |-> InitFun])
    /\ cands = <<CandidateNew(SearchSpaceNew(1, InitFun),
                              BoundOf(SearchSpaceNew(1, InitFun).domain))>>
    /\ parentOf = <<0>>
    /\ last = NoLast

\* The tools that read a dump run once the search has stopped.
Searching == last.op \notin {"replay", "clones"}

\* A driver applies one action to a node of the tree and keeps the child.
ApplyDecision(i, a) ==
    /\ Searching
    /\ Len(cands) < MaxCands
    /\ \E r \in {apply_decision(heap, cands[i], a)} :
          /\ heap' = r.heap
          /\ cands' = IF r.ok THEN Append(cands, r.cand) ELSE cands
          /\ parentOf' = IF r.ok THEN Append(parentOf, i) ELSE parentOf
          /\ last' = [NoLast EXCEPT !.op = "apply_decision", !.parent = i,
                                    !.choice = <<a>>, !.ok = r.ok,
                                    !.before = Snap(heap, cands[i]),
                                    !.res = IF r.ok THEN <<Snap(r.heap, r.cand)>>
                                            ELSE <<>>]
    /\ UNCHANGED notSearch

\* A driver branches on a choice and keeps the children.
ApplyChoice(i, choice) ==
    /\ Searching
    /\ Len(cands) < MaxCands
    /\ \E r \in {apply_choice(heap, cands[i], choice)} :
          /\ Len(cands) + Len(r.res) <= MaxCands
          /\ heap' = r.heap
          /\ cands' = cands \o r.res
          /\ parentOf' = parentOf \o [k \in 1..Len(r.res) |-> i]
          /\ last' = [NoLast EXCEPT !.op = "apply_choice", !.parent = i,
                                    !.choice = choice, !.ok = TRUE,
                                    !.before = Snap(heap, cands[i]),
                                    !.res = Snaps(r.heap, r.res)]
    /\ UNCHANGED notSearch

\* The action list of a candidate is dumped (Candidate::dump_to) and replayed
\* on a clone of the initial candidate.
Replay(i) ==
    /\ Searching
    /\ \E r \in {fold_actions(ArcClone(heap, cands[1].space.ir_instance),
                              cands[1], cands[i].actions)} :
          /\ heap' = IF r.ok THEN ArcDrop(r.heap, r.cand.space.ir_instance)
                     ELSE r.heap
          /\ last' = [NoLast EXCEPT !.op = "replay", !.parent = i,
                                    !.choice = cands[i].actions, !.ok = r.ok,
                                    !.before = Snap(heap, cands[i]),
                                    !.res = IF r.ok THEN <<Snap(r.heap, r.cand)>>
                                            ELSE <<>>]
    /\ UNCHANGED <<cands, parentOf>>
    /\ UNCHANGED notSearch

\* The result of a fold is dropped.
Released(h, r) == IF r.ok THEN ArcDrop(h, r.cand.space.ir_instance) ELSE h

\* The actions that built candidate j are applied, in the order they were
\* taken, to two clones of candidate i, and the two results are compared
\* before they are dropped.
CloneApply(i, j) ==
    /\ Searching
    /\ \E r1 \in {fold_actions(ArcClone(heap, cands[i].space.ir_instance),
                               cands[i], Reverse(cands[j].actions))} :
       \E r2 \in {fold_actions(ArcClone(r1.heap, cands[i].space.ir_instance),
                               cands[i], Reverse(cands[j].actions))} :
          /\ heap' = Released(Released(r2.heap, r2), r1)
          /\ last' = [NoLast EXCEPT !.op = "clones", !.parent = i,
                                    !.choice = Reverse(cands[j].actions),
                                    !.ok = r1.ok, !.ok2 = r2.ok,
                                    !.applied = r1.applied,
                                    !.applied2 = r2.applied,
                                    !.before = Snap(heap, cands[i]),
                                    !.res = IF r1.ok THEN <<Snap(r2.heap, r1.cand)>>
                                            ELSE <<>>,
                                    !.res2 = IF r2.ok THEN <<Snap(r2.heap, r2.cand)>>
                                             ELSE <<>>]
    /\ UNCHANGED <<cands, parentOf>>
    /\ UNCHANGED notSearch

\* The lists of actions a candidate is built with.
ActionLists(dom) ==
    UNION {[1..n -> {Restriction(k, s) : k \in DOMAIN dom, s \in AllowedSets}] : n \in 0..2}

\* A candidate is built by Candidate::with_actions from a clone of the space
\* of a node, with a list of actions already taken.
WithActions(i, actions) ==
    /\ Searching
    /\ Len(cands) < MaxCands
    /\ heap' = ArcClone(heap, cands[i].space.ir_instance)
    /\ cands' = Append(cands, with_actions(cands[i].space, cands[i].bound, actions))
    /\ parentOf' = Append(parentOf, 0)
    /\ last' = [NoLast EXCEPT !.op = "with_actions", !.parent = i, !.choice = actions,
                              !.ok = TRUE, !.before = Snap(heap, cands[i])]
    /\ UNCHANGED notSearch

NextCandidate ==
    \/ \E i \in 1..Len(cands) : \E a \in ActionsOn(cands[i].space.domain) :
           ApplyDecision(i, a)
    \/ \E i \in 1..Len(cands) : \E actions \in ActionLists(cands[i].space.domain) :
           WithActions(i, actions)

NextSearch ==
    \/ \E i \in 1..Len(cands) : \E a \in ActionsOn(cands[i].space.domain) :
           ApplyDecision(i, a)
    \/ \E i \in 1..Len(cands) : \E choice \in ChoicesOn(cands[i].space.domain) :
           ApplyChoice(i, choice)
    \/ \E i \in 1..Len(cands) : Replay(i)
    \/ \E i \in 1..Len(cands) : \E j \in 1..Len(cands) : CloneApply(i, j)


(***************************************************************************)
(* Context::async_eval (backend/cuda/src/context.rs) driven by             *)
(* explore_space (telamon-explorer/src/lib.rs).                            *)
(***************************************************************************)
EVAL_BUFFER_SIZE == 100
SKIP_THRESHOLD == 3
NUM_EVALS == 20
NUM_OUTLIERS == 4

Workers == 1..NumWorkers
Ticks == 1..MaxTicks
\* Bounds of the candidates the store hands out: one that a single execution
\* settles (t0 * SKIP_THRESHOLD >= bound) and one that needs the full
\* measurement.
CandBounds == {1, MaxTicks * SKIP_THRESHOLD + 1}

\* f64 values: a number of nanoseconds, kept as a fraction in lowest terms,
\* or INFINITY.
RECURSIVE GCD(_, _)
GCD(a, b) == IF b = 0 THEN a ELSE GCD(b, a % b)

Ratio(n, d) == [inf |-> FALSE, num |-> n \div GCD(n, d), den |-> d \div GCD(n, d)]
Ns(n) == [inf |-> FALSE, num |-> n, den |-> 1]
INFINITY == [inf |-> TRUE, num |-> 0, den |-> 1]
Lt(a, b) == ~a.inf /\ (b.inf \/ a.num * b.den < b.num * a.den)
Ge(a, b) == ~Lt(a, b)

Max(a, b) == IF a >= b THEN a ELSE b
Least(a, b) == IF a <= b THEN a ELSE b
Abs(x) == IF x < 0 THEN 0 - x ELSE x

\* What the device answers to the executions of a thunk: the first execution,
\* then the NUM_EVALS executions of the measurement.
DeviceOk(t) == [ok |-> TRUE, ticks |-> t]
DeviceErr == [ok |-> FALSE, ticks |-> 0]
Steady(o) == [i \in 1..NUM_EVALS |-> o]
DeviceRuns == [first : {DeviceErr} \cup {DeviceOk(t) : t \in Ticks},
               rest : {Steady(o) : o \in {DeviceErr} \cup {DeviceOk(t) : t \in Ticks}}]

\* Context::ticks_to_ns, for a device whose clock gives one tick per
\* nanosecond.
ticks_to_ns(ticks) == ticks

\* The outcome of eval_runtime, with the number of executions of the thunk
\* it made.
Ok(v, n) == [ok |-> TRUE, val |-> v, runs |-> n]
Err(n) == [ok |-> FALSE, val |-> INFINITY, runs |-> n]

\* A stable sort of records by their key (Itertools::sorted, sorted_by).
RECURSIVE InsertByKey(_, _)
InsertByKey(x, s) ==
    IF s = <<>> THEN <<x>>
    ELSE IF x.key < Head(s).key THEN <<x>> \o s
    ELSE <<Head(s)>> \o InsertByKey(x, Tail(s))

RECURSIVE SortByKey(_)
SortByKey(s) ==
    IF s = <<>> THEN <<>>
    ELSE InsertByKey(s[Len(s)], SortByKey(SubSeq(s, 1, Len(s) - 1)))

RECURSIVE SumVals(_)
SumVals(s) == IF s = <<>> THEN 0 ELSE Head(s).val + SumVals(Tail(s))

\* The position of the first failed execution among the first n, or 0.
FirstErr(runs, n) ==
    IF \A i \in 1..n : runs[i].ok THEN 0
    ELSE CHOOSE i \in 1..n : ~runs[i].ok /\ \A j \in 1..(i - 1) : runs[j].ok

\* runtimes_by_value: the first n run times, sorted.
ByValue(runs, n) ==
    SortByKey([i \in 1..n |-> [key |-> runs[i].ticks, val |-> runs[i].ticks]])

\* runtimes_by_delta: the run times in nanoseconds, sorted by their distance
\* to the median.
ByDelta(by_value, median) ==
    SortByKey([i \in 1..Len(by_value) |->
                  [key |-> Abs(ticks_to_ns(by_value[i].val) - median),
                   val |-> ticks_to_ns(by_value[i].val)]])

\* The mean of the num_samples run times closest to the median.
Average(by_delta, num_samples) ==
    Ratio(SumVals(SubSeq(by_delta, 1, num_samples)), num_samples)

MeanOfClosest(by_value, num_evals, num_samples) ==
    Average(ByDelta(by_value, ticks_to_ns(by_value[num_evals \div 2 + 1].val)),
            num_samples)

\* A measurement that always runs NUM_EVALS times, however slow the
\* candidate.
MeasureAlways(runs, num_evals, num_samples) ==
    IF FirstErr(runs, NUM_EVALS) # 0 THEN Err(1 + FirstErr(runs, NUM_EVALS))
    ELSE Ok(MeanOfClosest(ByValue(runs, NUM_EVALS), NUM_EVALS,
                          NUM_EVALS - NUM_OUTLIERS),
            1 + NUM_EVALS)

\* The measurement: num_evals executions, stopped by the first that fails.
Measure(runs, num_evals, num_samples) ==
    IF FirstErr(runs, num_evals) # 0 THEN Err(1 + FirstErr(runs, num_evals))
    ELSE Ok(MeanOfClosest(ByValue(runs, num_evals), num_evals, num_samples),
            1 + num_evals)

\* Fewer executions for a slow candidate: (1.0e9 / t0) as usize.
NumEvals(t0) == Max(1, Least(NUM_EVALS, (10^9) \div t0))
NumSamples(num_evals) == Max(1, Max(0, num_evals - NUM_OUTLIERS))

\* A skip rule that compares the first run time with the best run time so
\* far, as the documentation of SKIP_THRESHOLD has it.
SkipsAfterFirstOnBest(t0, bound, current_best) ==
    ~current_best.inf /\ t0 * current_best.den > SKIP_THRESHOLD * current_best.num

\* t0 * SKIP_THRESHOLD >= bound
SkipsAfterFirst(t0, bound, current_best) == t0 * SKIP_THRESHOLD >= bound

\* An eval_runtime without the cut on the bound: every candidate is run.
eval_runtime_no_cut(run, bound, current_best, skip) ==
    IF ~run.first.ok THEN Err(1)
    ELSE IF skip /\ SkipsAfterFirst(ticks_to_ns(run.first.ticks), bound, current_best)
    THEN Ok(Ns(ticks_to_ns(run.first.ticks)), 1)
    ELSE Measure(run.rest, NumEvals(ticks_to_ns(run.first.ticks)),
                 NumSamples(NumEvals(ticks_to_ns(run.first.ticks))))

\* Context::eval_runtime; skip is mode.skip_bad_candidates().
eval_runtime(run, bound, current_best, skip) ==
    IF Ge(Ns(bound), current_best) /\ skip THEN Ok(INFINITY, 0)
    ELSE IF ~run.first.ok THEN Err(1)
    ELSE IF skip /\ SkipsAfterFirst(ticks_to_ns(run.first.ticks), bound, current_best)
    THEN Ok(Ns(ticks_to_ns(run.first.ticks)), 1)
    ELSE Measure(run.rest, NumEvals(ticks_to_ns(run.first.ticks)),
                 NumSamples(NumEvals(ticks_to_ns(run.first.ticks))))

\* eval_runtime runs the thunk unless the bound makes it skip the candidate.
Executes(bound, current_best) == ~Ge(Ns(bound), current_best)

\* SyncSender::send on the channel: Err once the receiver is gone, blocked
\* while the buffer is full.
RecvAlive == epc \in {"recv", "eval"}
SendResult(q, alive) ==
    IF ~alive THEN "Err"
    ELSE IF Len(q) < EVAL_BUFFER_SIZE THEN "Ok" ELSE "Blocked"

\* A slip: the result of send is ignored.
ignore_send(res) == "explore"

\* unwrap!(self.sender.send(..)) in add_kernel, then back to the loop
unwrap_send(res) == IF res = "Err" THEN "panicked" ELSE "explore"

Terminated(w) == wpc[w] \in {"done", "panicked"}
\* The SyncSender handles alive: one per running explorer thread, and the
\* original until async_eval drops it.
Senders == {w \in Workers : ~Terminated(w)}
NoSender == Senders = {} /\ ~send

NoCand == [id |-> 0, bound |-> 0]

\* The monitor's best candidate: none, or a candidate and its evaluation.
NoBest == [id |-> 0, eval |-> INFINITY]

\* A monitor that keeps the evaluation it received last.
MonitorUpdateLast(best, id, eval) == [id |-> id, eval |-> eval]

\* The monitor handles an evaluation: it becomes the best when there is none
\* yet or when its score is below the best's.
MonitorUpdate(best, id, eval) ==
    IF best = NoBest \/ Lt(eval, best.eval) THEN [id |-> id, eval |-> eval]
    ELSE best

\* launch_search has returned the monitor's result.
Returned == mpc = "returned" /\ mon = "stopped"

InitAsync ==
    /\ wpc = [w \in Workers |-> "explore"]
    /\ wcand = [w \in Workers |-> NoCand]
    /\ queue = <<>>
    /\ send = TRUE
    /\ epc = "recv"
    /\ ecand = NoCand
    /\ best_eval = INFINITY
    /\ mpc = "spawned"
    /\ next_cand = 1
    /\ sent = {}
    /\ received = {}
    /\ failed = {}
    /\ called = [i \in 1..MaxExplored |-> <<>>]
    /\ dev_ops = {}
    /\ mon = "running"
    /\ mbest = NoBest
    /\ mseen = {}
    /\ stats_printed = FALSE

\* candidate_store.explore(context) returns a candidate, and add_kernel
\* compiles it and builds its thunk with the context's executor
\* (Kernel::compile_remote, gen_thunk) before it sends it.
ExploreSome(w, b) ==
    /\ wpc[w] = "explore"
    /\ next_cand <= MaxExplored
    /\ wpc' = [wpc EXCEPT ![w] = "add_kernel"]
    /\ wcand' = [wcand EXCEPT ![w] = [id |-> next_cand, bound |-> b]]
    /\ next_cand' = next_cand + 1
    /\ UNCHANGED <<queue, send, epc, ecand, best_eval, mpc, sent, received,
                   failed, called>>
    /\ dev_ops' = dev_ops \cup {[thread |-> "explorer", op |-> "compile"]}
    /\ UNCHANGED mvars
    /\ UNCHANGED notAsync

\* candidate_store.explore(context) returns None: the closure returns and its
\* AsyncEvaluator, with its sender, is dropped.
ExploreNone(w) ==
    /\ wpc[w] = "explore"
    /\ wpc' = [wpc EXCEPT ![w] = "done"]
    /\ UNCHANGED <<wcand, queue, send, epc, ecand, best_eval, mpc, next_cand,
                   sent, received, failed, called>>
    /\ UNCHANGED dev_ops
    /\ UNCHANGED mvars
    /\ UNCHANGED notAsync

\* AsyncEvaluator::add_kernel: the kernel is compiled and sent.
AddKernel(w) ==
    /\ wpc[w] = "add_kernel"
    /\ LET res == SendResult(queue, RecvAlive)
       IN /\ res # "Blocked"
          /\ wpc' = [wpc EXCEPT ![w] = unwrap_send(res)]
          /\ queue' = IF res = "Ok" THEN Append(queue, wcand[w]) ELSE queue
          /\ sent' = IF res = "Ok" THEN sent \cup {wcand[w].id} ELSE sent
    /\ wcand' = [wcand EXCEPT ![w] = NoCand]
    /\ UNCHANGED <<send, epc, ecand, best_eval, mpc, next_cand, received,
                   failed, called>>
    /\ UNCHANGED dev_ops
    /\ UNCHANGED mvars
    /\ UNCHANGED notAsync

\* recv.recv() returns a candidate.
Recv ==
    /\ epc = "recv"
    /\ queue # <<>>
    /\ epc' = "eval"
    /\ ecand' = Head(queue)
    /\ queue' = Tail(queue)
    /\ received' = received \cup {Head(queue).id}
    /\ UNCHANGED <<wpc, wcand, send, best_eval, mpc, next_cand, sent, failed,
                   called>>
    /\ UNCHANGED dev_ops
    /\ UNCHANGED mvars
    /\ UNCHANGED notAsync

\* recv.recv() returns Err: the buffer is empty and every sender is gone.
RecvDisconnected ==
    /\ epc = "recv"
    /\ queue = <<>>
    /\ NoSender
    /\ epc' = "done"
    /\ UNCHANGED <<wpc, wcand, queue, send, ecand, best_eval, mpc, next_cand,
                   sent, received, failed, called>>
    /\ UNCHANGED dev_ops
    /\ UNCHANGED mvars
    /\ UNCHANGED notAsync

\* The body of the evaluation thread's loop.  unwrap! panics on Err: the
\* thread unwinds, and recv is dropped with what the buffer holds.
Eval(run) ==
    /\ epc = "eval"
    /\ LET eval == eval_runtime(run, ecand.bound, best_eval, TRUE)
       IN IF eval.ok
          THEN /\ best_eval' = IF Lt(eval.val, best_eval) THEN eval.val
                               ELSE best_eval
               /\ called' = [called EXCEPT ![ecand.id] = Append(@, eval.val)]
               /\ epc' = "recv"
               /\ mbest' = IF mon = "running"
                           THEN MonitorUpdate(mbest, ecand.id, eval.val)
                           ELSE mbest
               /\ mseen' = IF mon = "running" THEN mseen \cup {ecand.id}
                           ELSE mseen
               /\ UNCHANGED <<queue, failed>>
          ELSE /\ epc' = "panicked"
               /\ queue' = <<>>
               /\ failed' = failed \cup {ecand.id}
               /\ UNCHANGED <<best_eval, called, mbest, mseen>>
    /\ ecand' = NoCand
    /\ UNCHANGED <<wpc, wcand, send, mpc, next_cand, sent, received>>
    /\ dev_ops' = IF Executes(ecand.bound, best_eval)
                  THEN dev_ops \cup {[thread |-> "evaluator", op |-> "execute"]}
                  ELSE dev_ops
    /\ UNCHANGED mon
    /\ UNCHANGED notAsync

\* std::mem::drop(send), once the threads are spawned.
DropSend ==
    /\ mpc = "spawned"
    /\ mpc' = "joining"
    /\ send' = FALSE
    /\ UNCHANGED <<wpc, wcand, queue, epc, ecand, best_eval, next_cand, sent,
                   received, failed, called>>
    /\ UNCHANGED dev_ops
    /\ UNCHANGED mvars
    /\ UNCHANGED notAsync

\* A scope that returns without joining its threads.
ScopeNoJoin ==
    /\ mpc = "joining"
    /\ mpc' = IF epc = "panicked" \/ \E w \in Workers : wpc[w] = "panicked"
              THEN "panicked" ELSE "returned"
    /\ UNCHANGED <<wpc, wcand, queue, send, epc, ecand, best_eval, next_cand,
                   sent, received, failed, called>>
    /\ UNCHANGED dev_ops
    /\ UNCHANGED mvars
    /\ UNCHANGED notAsync

\* crossbeam::scope joins the threads; its unwrap() panics when one of them
\* panicked.
ScopeJoin ==
    /\ mpc = "joining"
    /\ \A w \in Workers : Terminated(w)
    /\ epc \in {"done", "panicked"}
    /\ mpc' = IF epc = "panicked" \/ \E w \in Workers : wpc[w] = "panicked"
              THEN "panicked" ELSE "returned"
    /\ UNCHANGED <<wpc, wcand, queue, send, epc, ecand, best_eval, next_cand,
                   sent, received, failed, called>>
    /\ UNCHANGED dev_ops
    /\ UNCHANGED mvars
    /\ UNCHANGED notAsync

\* The monitor reaches its time or evaluation budget: it returns its best
\* candidate, and its receiver is dropped.
MonitorStop ==
    /\ mon = "running"
    /\ mpc \in {"spawned", "joining"}
    /\ mon' = "stopped"
    /\ UNCHANGED <<wpc, wcand, queue, send, epc, ecand, best_eval, mpc, next_cand,
                   sent, received, failed, called, dev_ops, mbest, mseen>>
    /\ UNCHANGED notAsync

\* explore_space has returned: every sender of the monitor's channel is
\* gone, and the monitor returns its best candidate.
MonitorEnd ==
    /\ mon = "running"
    /\ mpc = "returned"
    /\ mon' = "stopped"
    /\ UNCHANGED <<wpc, wcand, queue, send, epc, ecand, best_eval, mpc, next_cand,
                   sent, received, failed, called, dev_ops, mbest, mseen>>
    /\ UNCHANGED notAsync

\* launch_search, after explore_space has returned: the scope joins the
\* monitor thread, then candidate_store.print_stats() is called.
PrintStats ==
    /\ mpc = "returned"
    /\ mon = "stopped"
    /\ ~stats_printed
    /\ stats_printed' = TRUE
    /\ UNCHANGED notStats

(***************************************************************************)
(* logger::log (src/explorer/logger.rs) and the channel that feeds it      *)
(* (MctsBuilder::search, TreeBuilder::build, find_best_ex).                *)
(***************************************************************************)
LOG_BUFFER_SIZE == 100

\* Sender 1 is the candidate store, which logs its events; the others are
\* monitors, which log the new bests and, last, that the search finished.
LogSenders == 1..NumLogSenders
LogKind(t, k) ==
    IF t = 1 THEN "Event" ELSE IF k = MaxLogMsgs THEN "Finished" ELSE "NewBest"
LogMessage(t, k) == [from |-> t, seq |-> k, kind |-> LogKind(t, k)]

\* A plausible slip: the newest message is taken first.
LogRecvNewest(q) == [msg |-> q[Len(q)], rest |-> SubSeq(q, 1, Len(q) - 1)]

\* recv.recv() on the log channel: the oldest message.
LogRecv(q) == [msg |-> Head(q), rest |-> Tail(q)]

\* The file logger::log writes a message to: events go to the event log when
\* there is one, the rest to the text log.
LogFile(m, has_eventlog) ==
    IF m.kind = "Event" THEN (IF has_eventlog THEN "eventlog" ELSE "none")
    ELSE "watch"

InitLog ==
    /\ lpc = "create"
    /\ eventlog = FALSE
    /\ lqueue = <<>>
    /\ lsent = [t \in LogSenders |-> 0]
    /\ larrived = <<>>
    /\ lwritten = <<>>

(***************************************************************************)
(* Context::eval_runtime on its own: one call, with any arguments and any  *)
(* answers of the device.                                                  *)
(***************************************************************************)
\* The run times of a measurement: nHigh long ones, then nLow short ones,
\* then the usual one; the execution at errAt, if any, fails.
LowTicks == 1
MidTicks == LowTicks + MaxTicks
HighTicks(far) == MidTicks + MaxTicks + far

Samples(nHigh, nLow, far, errAt) ==
    [i \in 1..NUM_EVALS |->
        IF i = errAt THEN DeviceErr
        ELSE IF i <= nHigh THEN DeviceOk(HighTicks(far))
        ELSE IF i <= nHigh + nLow THEN DeviceOk(LowTicks)
        ELSE DeviceOk(MidTicks)]

\* First run times of slow candidates: 1.0e9 / t0 is below NUM_EVALS.
SlowTicks == {6 * 10^7, 6 * 10^8}

FirstRuns == {DeviceErr} \cup {DeviceOk(t) : t \in Ticks \cup SlowTicks}
RestRuns ==
    {Samples(nHigh, nLow, far, errAt) :
        nHigh \in 0..MaxOutliers, nLow \in 0..MaxOutliers,
        far \in 0..1, errAt \in {0, 1, NUM_EVALS}}
Bounds == {1, MaxTicks * SKIP_THRESHOLD + 1, 2 * 10^9}
Bests == {INFINITY, Ns(MaxTicks), Ns(MaxTicks * SKIP_THRESHOLD + 2)}

NoCall == [called |-> FALSE]
NoRes == Err(0)

InitRuntime ==
    /\ rcall = NoCall
    /\ rres = NoRes

EvalRuntime(run, bound, current_best, skip) ==
    /\ ~rcall.called
    /\ rcall' = [called |-> TRUE, run |-> run, bound |-> bound,
                 current_best |-> current_best, skip |-> skip]
    /\ rres' = eval_runtime(run, bound, current_best, skip)
    /\ UNCHANGED notRuntime

NextRuntime ==
    \E run \in [first : FirstRuns, rest : RestRuns], bound \in Bounds,
       current_best \in Bests, skip \in BOOLEAN :
        EvalRuntime(run, bound, current_best, skip)

(***************************************************************************)
(* A counter of the generated search space: its increments, their values, *)
(* and the actions that keep the stored range up to date.                  *)
(***************************************************************************)
Sites == 1..NumSites
CounterKinds == {"Add", "Mul"}

\* The zero of the template: the neutral value of the counter's operation.
Zero(kind) == IF kind = "Add" THEN 0 ELSE 1
Combine(kind, a, b) == IF kind = "Add" THEN a + b ELSE a * b

\* Domains of the increment's choice, and the trivalent incr.is(condition)
\* for the condition TRUE.
BoolDomains == {{TRUE, FALSE}, {TRUE}, {FALSE}}
IsTrue(incr) == incr = {TRUE}
IsFalse(incr) == incr = {FALSE}
MaybeFalse(incr) == ~IsTrue(incr)

\* Range::new_eq and HalfRange::new_eq on the value's domain.
NewEq(value, is_half) ==
    IF is_half THEN [min |-> value.min] ELSE [min |-> value.min, max |-> value.max]

\* An increment that never counts for the minimum.
IncrRangeNoMin(value, incr, kind, is_half) ==
    IF is_half THEN [min |-> Zero(kind)]
    ELSE [min |-> Zero(kind),
          max |-> IF IsFalse(incr) THEN Zero(kind) ELSE value.max]

\* update_counter: old_incr and new_incr, the range one site contributes.
IncrRange(value, incr, kind, is_half) ==
    IF is_half
    THEN [min |-> IF MaybeFalse(incr) THEN Zero(kind) ELSE NewEq(value, is_half).min]
    ELSE [min |-> IF MaybeFalse(incr) THEN Zero(kind) ELSE NewEq(value, is_half).min,
          max |-> IF IsFalse(incr) THEN Zero(kind) ELSE NewEq(value, is_half).max]

\* The counter's domain computed from the domains of the first n sites.
RECURSIVE MinOver(_, _, _, _)
MinOver(incrs, vals, def, n) ==
    IF n = 0 THEN Zero(def.kind)
    ELSE Combine(def.kind, MinOver(incrs, vals, def, n - 1),
                 IncrRange(vals[n], incrs[n], def.kind, def.is_half).min)

RECURSIVE MaxOver(_, _, _, _)
MaxOver(incrs, vals, def, n) ==
    IF n = 0 THEN Zero(def.kind)
    ELSE Combine(def.kind, MaxOver(incrs, vals, def, n - 1),
                 IncrRange(vals[n], incrs[n], def.kind, FALSE).max)

ComputeCounter(incrs, vals, def) ==
    IF def.is_half THEN [min |-> MinOver(incrs, vals, def, NumSites)]
    ELSE [min |-> MinOver(incrs, vals, def, NumSites),
          max |-> MaxOver(incrs, vals, def, NumSites)]

\* restrict on a range: the intersection.
RangeRestrict(old, with, is_half) ==
    IF is_half THEN [min |-> Max(old.min, with.min)]
    ELSE [min |-> Max(old.min, with.min), max |-> Least(old.max, with.max)]

RangeFailed(r, is_half) == ~is_half /\ r.min > r.max

\* The counter's action: the domain of the counter is computed again from
\* the domains of its increments and of their values, and the counter is
\* restricted to it.
StoreUpdateCounter(old, incrs, vals, def) ==
    RangeRestrict(old, ComputeCounter(incrs, vals, def), def.is_half)

ValueRanges == {[min |-> a, max |-> b] : a \in 1..MaxVal, b \in 1..MaxVal} \ 
               {r \in [min : 1..MaxVal, max : 1..MaxVal] : r.min > r.max}

NoDef == [declared |-> FALSE, kind |-> "Add", is_half |-> FALSE]
IncrDiff(site, old, new) == [choice |-> "incr", site |-> site, old |-> old, new |-> new]
ValueDiff(site, old, new) == [choice |-> "value", site |-> site, old |-> old, new |-> new]

InitCounter ==
    /\ cdef = NoDef
    /\ cincr = [i \in Sites |-> {TRUE, FALSE}]
    /\ cval = [i \in Sites |-> [min |-> 1, max |-> MaxVal]]
    /\ cnt = [min |-> 0]
    /\ cdiff = <<>>
    /\ cfailed = FALSE

\* register_counter, then the allocation of the counter's domain in a new
\* store.
RegisterCounter(kind, visibility) ==
    /\ ~cdef.declared
    /\ \E def \in {[declared |-> TRUE, kind |-> kind, is_half |-> visibility = "NoMax"]} :
        /\ cdef' = def
        /\ cnt' = ComputeCounter(cincr, cval, def)
    /\ UNCHANGED <<cincr, cval, cdiff, cfailed>>
    /\ UNCHANGED notCounter

Propagating == cdef.declared /\ ~cfailed

\* restrict on the choice of an increment: the store is changed and the
\* change is recorded for the propagation.
RestrictIncr(site, new) ==
    /\ Propagating
    /\ new \subseteq cincr[site]
    /\ new # cincr[site]
    /\ cincr' = [cincr EXCEPT ![site] = new]
    /\ cdiff' = <<IncrDiff(site, cincr[site], new)>> \o cdiff
    /\ UNCHANGED <<cdef, cval, cnt, cfailed>>
    /\ UNCHANGED notCounter

\* restrict on the choice that gives the value of an increment.
RestrictValue(site, new) ==
    /\ Propagating
    /\ new.min >= cval[site].min
    /\ new.max <= cval[site].max
    /\ new # cval[site]
    /\ cval' = [cval EXCEPT ![site] = new]
    /\ cdiff' = <<ValueDiff(site, cval[site], new)>> \o cdiff
    /\ UNCHANGED <<cdef, cincr, cnt, cfailed>>
    /\ UNCHANGED notCounter

\* restrict on the counter itself, by a filter on its value.
RestrictCounter(with) ==
    /\ Propagating
    /\ \E new \in {RangeRestrict(cnt, with, cdef.is_half)} :
        /\ new # cnt
        /\ ~RangeFailed(new, cdef.is_half)
        /\ cnt' = new
    /\ UNCHANGED <<cdef, cincr, cval, cdiff, cfailed>>
    /\ UNCHANGED notCounter

\* UpdateCounter, for a change of the value of a site from old to new: the
\* increment is read in the store, and nothing is done when the range of
\* the site is the same before and after the change.
UpdateCounter(site, old, new) ==
    IF IncrRange(old, cincr[site], cdef.kind, cdef.is_half)
       # IncrRange(new, cincr[site], cdef.kind, cdef.is_half)
    THEN StoreUpdateCounter(cnt, cincr, cval, cdef)
    ELSE cnt

\* IncrCounter, for a change of the increment of a site.
IncrCounter(site, old, new) == StoreUpdateCounter(cnt, cincr, cval, cdef)

\* One turn of the propagation: the newest change is taken and its action
\* runs.
PropagateChange ==
    /\ Propagating
    /\ cdiff # <<>>
    /\ \E d \in {Head(cdiff)} :
       \E new \in {IF d.choice = "value" THEN UpdateCounter(d.site, d.old, d.new)
                   ELSE IncrCounter(d.site, d.old, d.new)} :
        /\ cnt' = new
        /\ cfailed' = RangeFailed(new, cdef.is_half)
    /\ cdiff' = Tail(cdiff)
    /\ UNCHANGED <<cdef, cincr, cval>>
    /\ UNCHANGED notCounter

\* The filters on the counter: at most MaxVal, or at least MaxVal.
CounterRestrictions ==
    {[min |-> 0, max |-> MaxVal], [min |-> MaxVal, max |-> MaxVal ^ NumSites]}

NextCounter ==
    \/ \E kind \in CounterKinds, visibility \in {"NoMax", "HiddenMax", "Full"} :
          RegisterCounter(kind, visibility)
    \/ \E site \in Sites, new \in {{TRUE}, {FALSE}} : RestrictIncr(site, new)
    \/ \E site \in Sites, new \in ValueRanges : RestrictValue(site, new)
    \/ \E with \in CounterRestrictions : RestrictCounter(with)
    \/ PropagateChange

(***************************************************************************)
(* The choices of a description and their on-change actions.               *)
(***************************************************************************)
\* ir::Variable
Arg(i) == [var |-> "Arg", id |-> i]
Forall(i) == [var |-> "Forall", id |-> i]

\* The values of an enum with an inverse, and the inverse of each.
EnumValues == {"INNER", "OUTER", "MERGED"}
InverseValue(v) ==
    IF v = "INNER" THEN "OUTER" ELSE IF v = "OUTER" THEN "INNER" ELSE v

\* ValueSet::inverse
ValueSetInverse(values) == {InverseValue(v) : v \in values}

\* ir::Adaptator: the variables it renames; the others are left alone.
AdaptatorDefault == [from |-> <<>>, to |-> <<>>]
SetVariable(adaptator, old, new) ==
    [from |-> Append(adaptator.from, old), to |-> Append(adaptator.to, new)]
AdaptVariable(adaptator, v) ==
    IF \E i \in 1..Len(adaptator.from) : adaptator.from[i] = v
    THEN adaptator.to[CHOOSE i \in 1..Len(adaptator.from) : adaptator.from[i] = v]
    ELSE v
AdaptVars(adaptator, vs) ==
    [i \in 1..Len(vs) |-> AdaptVariable(adaptator, vs[i])]

\* Adaptable for ChoiceInstance, ir::Set (a set and the variable it depends
\* on), CounterVal and ChoiceCondition.
AdaptInstance(adaptator, inst) ==
    [choice |-> inst.choice, vars |-> AdaptVars(adaptator, inst.vars)]
AdaptSets(adaptator, sets) ==
    [i \in 1..Len(sets) |->
        [set |-> sets[i].set, param |-> AdaptVariable(adaptator, sets[i].param)]]
AdaptCounterVal(adaptator, value) ==
    IF value.code THEN value
    ELSE [code |-> FALSE, instance |-> AdaptInstance(adaptator, value.instance)]
AdaptCondition(adaptator, condition) ==
    [inputs |-> [i \in 1..Len(condition.inputs) |->
                    AdaptInstance(adaptator, condition.inputs[i])],
     self_condition |-> condition.self_condition]

\* Adaptable for ChoiceAction
AdaptAction(adaptator, action) ==
    CASE action.kind = "FilterSelf" -> action
      [] action.kind = "RemoteFilter" ->
            [kind |-> "RemoteFilter",
             choice |-> AdaptInstance(adaptator, action.choice)]
      [] action.kind = "IncrCounter" ->
            [kind |-> "IncrCounter",
             counter |-> AdaptInstance(adaptator, action.counter),
             value |-> AdaptCounterVal(adaptator, action.value),
             incr_condition |-> action.incr_condition]
      [] action.kind = "UpdateCounter" ->
            [kind |-> "UpdateCounter",
             counter |-> AdaptInstance(adaptator, action.counter),
             incr |-> AdaptInstance(adaptator, action.incr),
             incr_condition |-> action.incr_condition]
      [] action.kind = "Trigger" ->
            [kind |-> "Trigger",
             id |-> action.id,
             condition |-> AdaptCondition(adaptator, action.condition),
             inverse_self_cond |-> action.inverse_self_cond]

\* Adaptable for OnChangeAction
AdaptOnChange(adaptator, on) ==
    [forall_vars |-> AdaptSets(adaptator, on.forall_vars),
     action |-> AdaptAction(adaptator, on.action)]

\* ChoiceAction::applies_to_symmetric
applies_to_symmetric(action) == action.kind \notin {"FilterSelf", "RemoteFilter"}

\* An inverse_self that leaves the conditions on the increments alone.
inverse_self_trigger_only(action) ==
    IF action.kind = "Trigger"
    THEN [action EXCEPT !.inverse_self_cond = ~action.inverse_self_cond]
    ELSE action

\* ChoiceAction::inverse_self
inverse_self(action) ==
    IF action.kind = "Trigger"
    THEN [action EXCEPT !.inverse_self_cond = ~action.inverse_self_cond]
    ELSE IF action.kind \in {"IncrCounter", "UpdateCounter"}
    THEN [action EXCEPT !.incr_condition = ValueSetInverse(action.incr_condition)]
    ELSE action

\* OnChangeAction::inverse
SwapArgs ==
    SetVariable(SetVariable(AdaptatorDefault, Arg(0), Arg(1)), Arg(1), Arg(0))

WithInverseSelf(out) ==
    [forall_vars |-> out.forall_vars, action |-> inverse_self(out.action)]

inverse(on) == WithInverseSelf(AdaptOnChange(SwapArgs, on))

\* ChoiceArguments::new
NoChoice == [created |-> FALSE]
ChoiceArgumentsNew(nvars, symmetric, inverse_flag) ==
    IF symmetric
    THEN [created |-> TRUE, symmetric |-> TRUE, inverse |-> inverse_flag]
    ELSE [created |-> TRUE, symmetric |-> FALSE, inverse |-> FALSE, nvars |-> nvars]

\* The actions a description registers on a choice of two arguments.
VarLists == {<<Arg(0), Arg(1)>>, <<Arg(1), Forall(0)>>, <<Arg(0)>>}
Conditions == {{"INNER"}, {"OUTER", "MERGED"}}
Instances(name) == {[choice |-> name, vars |-> vs] : vs \in VarLists}
CounterVals ==
    {[code |-> TRUE]} \cup
    {[code |-> FALSE, instance |-> inst] : inst \in Instances("value")}
ChoiceActions ==
    {[kind |-> "FilterSelf"]}
    \cup {[kind |-> "RemoteFilter", choice |-> inst] : inst \in Instances("other")}
    \cup {[kind |-> "IncrCounter", counter |-> inst, value |-> value,
           incr_condition |-> cond] :
            inst \in Instances("counter"), value \in {[code |-> TRUE]},
            cond \in Conditions}
    \cup {[kind |-> "IncrCounter", counter |-> [choice |-> "counter", vars |-> <<Arg(0)>>],
           value |-> value, incr_condition |-> {"INNER"}] : value \in CounterVals}
    \cup {[kind |-> "UpdateCounter", counter |-> inst,
           incr |-> [choice |-> "incr", vars |-> <<Arg(0), Arg(1)>>],
           incr_condition |-> cond] :
            inst \in Instances("counter"), cond \in Conditions}
    \cup {[kind |-> "Trigger", id |-> 0,
           condition |-> [inputs |-> <<inst>>, self_condition |-> cond],
           inverse_self_cond |-> flag] :
            inst \in Instances("input"), cond \in Conditions, flag \in BOOLEAN}

\* The quantified variable of an action ranges over a set that depends on
\* the first argument.
OnChangeOf(action, quantified) ==
    [forall_vars |-> IF quantified THEN <<[set |-> "Dims", param |-> Arg(0)]>> ELSE <<>>,
     action |-> action]

RECURSIVE MapInverse(_)
MapInverse(actions) ==
    IF actions = <<>> THEN <<>>
    ELSE IF applies_to_symmetric(Head(actions).action)
    THEN <<inverse(Head(actions))>> \o MapInverse(Tail(actions))
    ELSE MapInverse(Tail(actions))

InitChoice ==
    /\ ychoice = NoChoice
    /\ on_change = <<>>
    /\ sym_change = <<>>
    /\ ystore = <<>>

\* Choice::new, with the arguments ChoiceArguments::new builds; an inverse
\* that is asked for a choice that is not symmetric fails the assertion.
ChoiceNew(symmetric, inverse_flag) ==
    /\ ~ychoice.created
    /\ symmetric \/ ~inverse_flag
    /\ ychoice' = ChoiceArgumentsNew(2, symmetric, inverse_flag)
    /\ on_change' = <<>>
    /\ UNCHANGED <<sym_change, ystore>>
    /\ UNCHANGED notChoice

\* Choice::add_onchange
AddOnChange(on) ==
    /\ ychoice.created
    /\ sym_change = <<>>
    /\ Len(on_change) < MaxActions
    /\ on_change' = Append(on_change, on)
    /\ UNCHANGED <<ychoice, sym_change, ystore>>
    /\ UNCHANGED notChoice

\* The actions of a symmetric choice are generated a second time, for the
\* symmetric of the choice.
GenerateSymmetric ==
    /\ ychoice.created
    /\ ychoice.symmetric
    /\ sym_change = <<>>
    /\ MapInverse(on_change) # <<>>
    /\ sym_change' = MapInverse(on_change)
    /\ UNCHANGED <<ychoice, on_change, ystore>>
    /\ UNCHANGED notChoice

NextChoice ==
    \/ \E symmetric \in BOOLEAN, inverse_flag \in BOOLEAN : ChoiceNew(symmetric, inverse_flag)
    \/ \E action \in ChoiceActions, quantified \in BOOLEAN :
          AddOnChange(OnChangeOf(action, quantified))
    \/ GenerateSymmetric

(***************************************************************************)
(* The store of a choice of two arguments. A symmetric choice is defined   *)
(* on a triangular space: the rest is obtained by symmetry.                *)
(***************************************************************************)
Objs == 1..NumObjs
Pairs == {p \in Objs \X Objs : p[1] # p[2]}
Domains == (SUBSET EnumValues) \ {{}}

\* The keys the store holds for the choice.
StoreKeys(choice) ==
    IF choice.symmetric THEN {p \in Pairs : p[1] < p[2]} ELSE Pairs

\* A symmetric that is read as it is stored, inverse or not.
SymmetricAsStored(choice, domain) == domain

\* The domain of the symmetric, as seen from the other side.
Symmetric(choice, domain) ==
    IF choice.inverse THEN ValueSetInverse(domain) ELSE domain

\* get(name, args)
StoreGet(store, choice, a, b) ==
    IF <<a, b>> \in StoreKeys(choice) THEN store[<<a, b>>]
    ELSE Symmetric(choice, store[<<b, a>>])

\* restrict(name, args, allowed): the intersection, written where the
\* domain is stored.
StoreRestrict(store, choice, a, b, allowed) ==
    IF <<a, b>> \in StoreKeys(choice)
    THEN [store EXCEPT ![<<a, b>>] = @ \cap allowed]
    ELSE [store EXCEPT ![<<b, a>>] = @ \cap Symmetric(choice, allowed)]

\* new(function): every domain is the universe of the choice.
StoreNew ==
    /\ ychoice.created
    /\ ystore = <<>>
    /\ ystore' = [p \in StoreKeys(ychoice) |-> EnumValues]
    /\ UNCHANGED <<ychoice, on_change, sym_change>>
    /\ UNCHANGED notChoice

\* A decision, or a restriction made by the propagation, on the choice for
\* the arguments (a, b); a restriction that empties the domain fails and
\* the store is given up.
Restrict(a, b, allowed) ==
    /\ ystore # <<>>
    /\ StoreGet(ystore, ychoice, a, b) \cap allowed # {}
    /\ StoreGet(ystore, ychoice, a, b) \cap allowed # StoreGet(ystore, ychoice, a, b)
    /\ ystore' = StoreRestrict(ystore, ychoice, a, b, allowed)
    /\ UNCHANGED <<ychoice, on_change, sym_change>>
    /\ UNCHANGED notChoice

\* The stores of the symmetric choices, with and without an inverse.
NextStore ==
    \/ \E inverse_flag \in BOOLEAN : ChoiceNew(TRUE, inverse_flag)
    \/ StoreNew
    \/ \E p \in Pairs, allowed \in Domains : Restrict(p[1], p[2], allowed)

(***************************************************************************)
(* Operator::check on its own: one call, on any operator.                  *)
(***************************************************************************)
\* ir::Type
TypeI(bits) == [type |-> "I", bits |-> bits]
TypeF(bits) == [type |-> "F", bits |-> bits]
TypePtrTo == [type |-> "PtrTo", bits |-> 0]
Types == {TypeI(32), TypeI(64), TypeF(32), TypeF(64), TypePtrTo}
is_float(t) == t.type = "F"

Roundings == {"Exact", "Nearest", "Zero", "Positive", "Negative"}
BinOps == {"Add", "Sub", "Div", "And", "Or", "Lt", "Leq", "Equals", "Max"}

CheckOk == [ok |-> TRUE, err |-> "none"]
CheckErr(e) == [ok |-> FALSE, err |-> e]

\* A check of the rounding that accepts every policy.
RoundingCheckAny(rounding, t) == CheckOk

\* Rounding::check
RoundingCheck(rounding, t) ==
    IF is_float(t) # (rounding = "Exact") THEN CheckOk
    ELSE CheckErr("InvalidRounding")

\* BinOp::requires_rounding
requires_rounding(operator) == operator \notin {"Lt", "Leq", "Equals", "Max"}

\* BinOp::t, UnaryOp::t and Operator::t
BinOpT(operator, operand_type) ==
    IF operator \in {"Lt", "Leq", "Equals"} THEN TypeI(1) ELSE operand_type

OperatorT(op) ==
    CASE op.kind = "BinOp" -> <<BinOpT(op.operator, op.lhs)>>
      [] op.kind = "Mul" -> <<op.res_type>>
      [] op.kind = "Mad" -> <<op.add_rhs>>
      [] op.kind = "UnaryOp" -> <<op.operand>>
      [] op.kind = "TmpLd" -> <<op.t>>
      [] op.kind = "TmpSt" -> <<>>

\* Operator::operands, by their types
OperandTypes(op) ==
    CASE op.kind = "BinOp" -> <<op.lhs, op.rhs>>
      [] op.kind = "Mul" -> <<op.lhs, op.rhs>>
      [] op.kind = "Mad" -> <<op.lhs, op.rhs, op.add_rhs>>
      [] op.kind = "UnaryOp" -> <<op.operand>>
      [] op.kind = "TmpLd" -> <<>>
      [] op.kind = "TmpSt" -> <<op.operand>>

\* TypeError::check_equals
CheckEquals(t, expected) == IF t = expected THEN CheckOk ELSE CheckErr("WrongType")

\* The first error of a list of checks, as the ? operator returns it.
RECURSIVE FirstError(_)
FirstError(checks) ==
    IF checks = <<>> THEN CheckOk
    ELSE IF ~Head(checks).ok THEN Head(checks)
    ELSE FirstError(Tail(checks))

\* The types Mul and Mad accept for the result, given the operands'.
Widens(x, z) ==
    \/ x = z
    \/ x = TypeI(32) /\ z = TypeI(64)
    \/ x = TypeI(32) /\ z = TypePtrTo

\* The match of Operator::check
CheckVariant(op) ==
    CASE op.kind = "BinOp" ->
            FirstError(<<IF requires_rounding(op.operator)
                         THEN RoundingCheck(op.rounding, op.lhs)
                         ELSE IF op.rounding # "Exact" THEN CheckErr("InvalidRounding")
                         ELSE CheckOk,
                         CheckEquals(op.lhs, op.rhs)>>)
      [] op.kind = "Mul" ->
            FirstError(<<RoundingCheck(op.rounding, op.lhs),
                         CheckEquals(op.lhs, op.rhs),
                         IF Widens(op.lhs, op.res_type) THEN CheckOk
                         ELSE CheckErr("UnexpectedType")>>)
      [] op.kind = "Mad" ->
            FirstError(<<RoundingCheck(op.rounding, op.lhs),
                         CheckEquals(op.lhs, op.rhs),
                         IF Widens(op.lhs, op.add_rhs) THEN CheckOk
                         ELSE CheckErr("UnexpectedType")>>)
      [] OTHER -> CheckOk

\* Device::check_type, for a device that has no type of the set unsupported.
DeviceCheckType(t, unsupported) ==
    IF t \in unsupported THEN CheckErr("InvalidType") ELSE CheckOk

\* Operator::check; mapped tells whether the dimension mappings of the
\* operands are registered in the function.
OperatorCheck(op, unsupported, mapped) ==
    FirstError(
        [i \in 1..Len(OperatorT(op)) |-> DeviceCheckType(OperatorT(op)[i], unsupported)]
        \o [i \in 1..Len(OperandTypes(op)) |->
                DeviceCheckType(OperandTypes(op)[i], unsupported)]
        \o <<IF mapped THEN CheckOk ELSE CheckErr("MissingDimMapping")>>
        \o <<CheckVariant(op)>>)

Operators ==
    {[kind |-> "BinOp", operator |-> o, lhs |-> l, rhs |-> r, rounding |-> rd] :
        o \in BinOps, l \in Types, r \in Types, rd \in Roundings}
    \cup {[kind |-> "Mul", lhs |-> l, rhs |-> r, rounding |-> rd, res_type |-> t] :
        l \in Types, r \in Types, rd \in Roundings, t \in Types}
    \cup {[kind |-> "Mad", lhs |-> l, rhs |-> r, add_rhs |-> t, rounding |-> rd] :
        l \in Types, r \in Types, t \in Types, rd \in Roundings}
    \cup {[kind |-> "UnaryOp", operand |-> t] : t \in Types}
    \cup {[kind |-> "TmpLd", t |-> t] : t \in Types}
    \cup {[kind |-> "TmpSt", operand |-> t] : t \in Types}

NoCheck == [called |-> FALSE]

InitOperator ==
    /\ ocall = NoCheck
    /\ ores = CheckOk

Check(op, unsupported, mapped) ==
    /\ ~ocall.called
    /\ ocall' = [called |-> TRUE, op |-> op, unsupported |-> unsupported,
                 mapped |-> mapped]
    /\ ores' = OperatorCheck(op, unsupported, mapped)
    /\ UNCHANGED notOperator

NextOperator ==
    \E op \in Operators, unsupported \in {{}, {TypeF(64)}}, mapped \in BOOLEAN :
        Check(op, unsupported, mapped)

(***************************************************************************)
(* codegen::Size. The factor and the divisor are unsigned machine words:   *)
(* the model keeps the wrap-around of their products, on words of WordBits *)
(* bits instead of 32.                                                     *)
(***************************************************************************)
WordBits == 4
Words == 0..(2 ^ WordBits - 1)

\* The product of two words, which overflows above the largest word: a
\* build with overflow checks panics, a build without wraps around.
Overflows(a, b) == a * b >= 2 ^ WordBits
WrappingMul(a, b) == (a * b) % (2 ^ WordBits)

\* Size::simplify, for a factor and a divisor that are not both 0: with a
\* gcd of 0 the division panics, which the caller models.
Simplify(s) ==
    [factor |-> s.factor \div GCD(s.factor, s.divisor),
     dividend |-> s.dividend,
     divisor |-> s.divisor \div GCD(s.factor, s.divisor)]

\* The sizes Size::new returns; the dividend is kept as the number of its
\* parameters.
NewSizes ==
    {Simplify([factor |-> f, dividend |-> n, divisor |-> d]) :
        f \in Words, n \in 0..1, d \in Words \ {0}}

NoSize == [factor |-> 0, dividend |-> 0, divisor |-> 0]

\* Option<u32>
Some(v) == [some |-> TRUE, val |-> v]
None == [some |-> FALSE, val |-> 0]

\* as_int without the test of the dividend.
as_int_factor(s) == Some(s.factor)

\* Size::as_int
as_int(s) == IF s.dividend = 0 THEN Some(s.factor) ELSE None

\* No call of as_int on the current size yet.
NoInt == [called |-> FALSE, res |-> None]

InitSize ==
    /\ size = NoSize
    /\ zpc = "none"
    /\ zint = NoInt

\* Size::new
SizeNew(factor, dividend, divisor) ==
    /\ zpc = "none"
    /\ IF divisor = 0
       THEN zpc' = "panicked" /\ UNCHANGED size
       ELSE /\ zpc' = "size"
            /\ size' = Simplify([factor |-> factor, dividend |-> dividend,
                                 divisor |-> divisor])
    /\ zint' = NoInt
    /\ UNCHANGED notSize

\* MulAssign<&Size> for Size; checked tells whether the build checks the
\* overflows of the arithmetic.
MulAssign(rhs, checked) ==
    /\ zpc = "size"
    /\ size.dividend + rhs.dividend <= MaxParams
    /\ IF checked /\ (Overflows(size.factor, rhs.factor) \/ Overflows(size.divisor, rhs.divisor))
       THEN zpc' = "panicked" /\ UNCHANGED size
       ELSE \E product \in {[factor |-> WrappingMul(size.factor, rhs.factor),
                              dividend |-> size.dividend + rhs.dividend,
                              divisor |-> WrappingMul(size.divisor, rhs.divisor)]} :
               IF GCD(product.factor, product.divisor) = 0
               THEN zpc' = "panicked" /\ UNCHANGED size
               ELSE zpc' = "size" /\ size' = Simplify(product)
    /\ zint' = NoInt
    /\ UNCHANGED notSize

\* A call of as_int on the size.
AsInt ==
    /\ zpc = "size"
    /\ ~zint.called
    /\ zint' = [called |-> TRUE, res |-> as_int(size)]
    /\ UNCHANGED <<size, zpc>>
    /\ UNCHANGED notSize

NextSize ==
    \/ \E factor \in Words, dividend \in 0..1, divisor \in Words :
          SizeNew(factor, dividend, divisor)
    \/ \E rhs \in NewSizes, checked \in BOOLEAN : MulAssign(rhs, checked)
    \/ AsInt

(***************************************************************************)
(* The memory model of the CUDA backend (backend/cuda/src/mem_model.rs):   *)
(* the offsets of the accesses of the threads of a wrap.                   *)
(***************************************************************************)
\* ThreadDimInfo; stride holds stride.min and stride_factors.gcd.
ThreadDimInfo(id, is_active_thread, is_partial_dim, range, stride) ==
    [id |-> id, is_active_thread |-> is_active_thread,
     is_partial_dim |-> is_partial_dim, size |-> range, stride |-> stride]

\* ThreadDimInfo::partial_size
partial_size(dim) ==
    IF dim.is_partial_dim THEN dim.size.max - dim.size.min + 1 ELSE dim.size.min

\* increment_index: the indexes and whether the next index is to be
\* incremented too.
increment_index(pos, dims, indexes) ==
    IF indexes[pos] + 1 < partial_size(dims[pos])
    THEN [indexes |-> [indexes EXCEPT ![pos] = @ + 1], incr |-> FALSE, panicked |-> FALSE]
    ELSE [indexes |-> [indexes EXCEPT ![pos] = 0], incr |-> TRUE, panicked |-> FALSE]

\* thread_dims[0..i].iter().position(|d| d.id == dim.id)
BasePositions(dims, i) == {j \in 1..(i - 1) : dims[j].id = dims[i].id}

\* The body of the loop on the dimensions without its second half: the base
\* of a partial dimension is left where it is.
KeepBase(dims, i, st) == st

\* The second half of the body of the loop on the dimensions: the base of a
\* partial dimension whose index is not 0 is set to its last index; unwrap
\* and the assertion panic when the base is not found before the partial
\* dimension.
HoldBase(dims, i, st) ==
    IF ~(dims[i].is_partial_dim /\ st.indexes[i] > 0) THEN st
    ELSE IF BasePositions(dims, i) = {} THEN [st EXCEPT !.panicked = TRUE]
    ELSE IF dims[Min(BasePositions(dims, i))].is_partial_dim
    THEN [st EXCEPT !.panicked = TRUE]
    ELSE [st EXCEPT !.indexes[Min(BasePositions(dims, i))] =
                        dims[Min(BasePositions(dims, i))].size.min - 1]

\* The first half of the body of the loop on the dimensions.
IncrStep(dims, i, st) ==
    IF st.incr THEN increment_index(i, dims, st.indexes) ELSE st

\* for (i, dim) in thread_dims.iter().enumerate()
RECURSIVE ForDims(_, _, _)
ForDims(dims, i, st) ==
    IF i > Len(dims) \/ st.panicked THEN st
    ELSE ForDims(dims, i + 1, HoldBase(dims, i, IncrStep(dims, i, st)))

StrideOf(dim, use_gcd) == IF use_gcd THEN dim.stride.gcd ELSE dim.stride.min

\* The sum of indexes[i] * stride over the dimensions.
RECURSIVE OffsetFrom(_, _, _, _)
OffsetFrom(dims, indexes, use_gcd, i) ==
    IF i > Len(dims) THEN 0
    ELSE indexes[i] * StrideOf(dims[i], use_gcd) + OffsetFrom(dims, indexes, use_gcd, i + 1)

\* The while loop of wrap_access_offsets; visited keeps the indexes behind
\* each offset.
RECURSIVE WrapLoop(_, _, _, _, _)
RECURSIVE WrapPass(_, _, _, _, _)
WrapLoop(dims, use_gcd, wrap_size, indexes, out) ==
    IF Len(out.offsets) >= wrap_size THEN out
    ELSE WrapPass(dims, use_gcd, wrap_size,
                  ForDims(dims, 1, [indexes |-> indexes, incr |-> TRUE, panicked |-> FALSE]),
                  out)

WrapPass(dims, use_gcd, wrap_size, st, out) ==
    IF st.panicked THEN [out EXCEPT !.panicked = TRUE]
    ELSE IF st.incr THEN out
    ELSE WrapLoop(dims, use_gcd, wrap_size, st.indexes,
                  [offsets |-> Append(out.offsets, OffsetFrom(dims, st.indexes, use_gcd, 1)),
                   visited |-> Append(out.visited, st.indexes),
                   panicked |-> FALSE])

wrap_access_offsets(thread_dims, use_gcd, wrap_size) ==
    WrapLoop(thread_dims, use_gcd, wrap_size, [i \in 1..Len(thread_dims) |-> 0],
             [offsets |-> <<0>>,
              visited |-> <<[i \in 1..Len(thread_dims) |-> 0]>>,
              panicked |-> FALSE])

\* The dimensions, the sizes and the strides the calls are made with, and
\* the sizes of a wrap.
DimIds == {0, 1}
DimRanges == {[min |-> 2, max |-> 2], [min |-> 2, max |-> 4], [min |-> 4, max |-> 4]}
DimStrides == {[min |-> 0, gcd |-> 0], [min |-> 1, gcd |-> 1], [min |-> 2, gcd |-> 1]}
WrapSizes == {4, 32}

\* The base and, for a size that is not fixed, the partial dimension of
\* each dimension.
DimInfos(ranges, strides) ==
    {ThreadDimInfo(id, TRUE, FALSE, ranges[id], strides[id]) : id \in DimIds}
        \cup {ThreadDimInfo(id, TRUE, TRUE, ranges[id], strides[id]) :
                 id \in {d \in DimIds : ranges[d].min # ranges[d].max}}

\* The lists of thread dimensions: each dimension at most once, a partial
\* dimension only with its base.
ThreadDimLists(ranges, strides) ==
    {dims \in UNION {[1..n -> DimInfos(ranges, strides)] : n \in 0..(2 * Cardinality(DimIds))} :
        /\ \A i, j \in 1..Len(dims) : dims[i] = dims[j] => i = j
        /\ \A i \in 1..Len(dims) :
              dims[i].is_partial_dim => \E j \in 1..Len(dims) :
                  dims[j].id = dims[i].id /\ ~dims[j].is_partial_dim}

NoOffsetsCall == [called |-> FALSE, thread_dims |-> <<>>, use_gcd |-> FALSE, wrap_size |-> 0]
NoOffsets == [offsets |-> <<>>, visited |-> <<>>, panicked |-> FALSE]

InitOffsets ==
    /\ offcall = NoOffsetsCall
    /\ offres = NoOffsets

\* A call of wrap_access_offsets.
WrapAccessOffsets(thread_dims, use_gcd, wrap_size) ==
    /\ ~offcall.called
    /\ offcall' = [called |-> TRUE, thread_dims |-> thread_dims, use_gcd |-> use_gcd,
                   wrap_size |-> wrap_size]
    /\ offres' = wrap_access_offsets(thread_dims, use_gcd, wrap_size)
    /\ UNCHANGED notOffsets

NextOffsets ==
    \E ranges \in [DimIds -> DimRanges], strides \in [DimIds -> DimStrides] :
        \E thread_dims \in ThreadDimLists(ranges, strides) :
            \E use_gcd \in BOOLEAN, wrap_size \in WrapSizes :
                WrapAccessOffsets(thread_dims, use_gcd, wrap_size)

(***************************************************************************)
(* The memory model of the CUDA backend: the analysis of a global access   *)
(* with a tensor pattern, for an instruction nested in the thread          *)
(* dimensions d0 and d1 of a function that has no other thread dimension,  *)
(* no vector dimension, and an access pattern with a stride on d0 only.    *)
(***************************************************************************)
\* The domain of thread_mapping(lhs, rhs) once the order of d0 with d1 is
\* decided: a dimension ordered OUTER another is mapped outside of it.
get_thread_mapping(order, lhs, rhs) ==
    IF order = "NONE" THEN {"MAPPED", "MAPPED_OUT", "MAPPED_IN"}
    ELSE IF (order = "OUTER") = (lhs < rhs) THEN {"MAPPED_OUT"} ELSE {"MAPPED_IN"}

\* tensor_thread_dims: the partial dimension of a size that is not fixed is
\* pushed before its base; the stride of a dimension that is not in the
\* pattern is Range::ZERO.
RECURSIVE tensor_thread_dims(_, _, _)
tensor_thread_dims(iteration_dims, sizes, tensor_dims) ==
    IF iteration_dims = <<>> THEN <<>>
    ELSE (IF sizes[Head(iteration_dims)].min # sizes[Head(iteration_dims)].max
          THEN <<ThreadDimInfo(Head(iteration_dims), TRUE, TRUE,
                               sizes[Head(iteration_dims)], tensor_dims[Head(iteration_dims)])>>
          ELSE <<>>)
         \o <<ThreadDimInfo(Head(iteration_dims), TRUE, FALSE,
                            sizes[Head(iteration_dims)], tensor_dims[Head(iteration_dims)])>>
         \o tensor_thread_dims(Tail(iteration_dims), sizes, tensor_dims)

\* cmp_thread_dims without use_gcd, as Ordering::Greater: the smaller stride
\* is the greater, then the dimension that is not partial.
CmpGreater(lhs, rhs) ==
    \/ rhs.stride.min > lhs.stride.min
    \/ rhs.stride.min = lhs.stride.min /\ rhs.is_partial_dim /\ ~lhs.is_partial_dim

\* BinaryHeap::pop: the greatest element of the bheap.
HeapPop(bheap) == CHOOSE d \in bheap : \A other \in bheap \ {d} : CmpGreater(d, other)

\* No thread dimension is known to be inside the dimension.
NumInnerNone(d, dims, order) == 0

\* The number of thread dimensions that are inside the dimension for sure.
NumInner(d, dims, order) ==
    Cardinality({other \in {dims[i].id : i \in {j \in 1..Len(dims) : dims[j].is_active_thread}} :
                    /\ other # d.id
                    /\ get_thread_mapping(order, d.id, other) = {"MAPPED_OUT"}})

DimGroup(dims, order, n) ==
    {dims[i] : i \in {j \in 1..Len(dims) : NumInner(dims[j], dims, order) = n}}

TotalSize(total_size, d) ==
    IF d.is_partial_dim THEN (total_size \div d.size.min) * d.size.max
    ELSE total_size * d.size.min

\* The loop of sort_thread_dims, from a pop to the next.
RECURSIVE SortLoop(_, _, _, _, _, _)
SortPopped(dims, order, wrap_size, bheap, out, total_size) ==
    IF total_size >= wrap_size THEN out
    ELSE SortLoop(dims, order, wrap_size, bheap \cup DimGroup(dims, order, Len(out)),
                  out, total_size)

SortLoop(dims, order, wrap_size, bheap, out, total_size) ==
    IF bheap = {} THEN out
    ELSE SortPopped(dims, order, wrap_size, bheap \ {HeapPop(bheap)},
                    Append(out, HeapPop(bheap)), TotalSize(total_size, HeapPop(bheap)))

sort_thread_dims(dims, order, wrap_size) ==
    SortLoop(dims, order, wrap_size, DimGroup(dims, order, 0), <<>>, 1)

\* offsets_global_coalescing
Lines(offsets, cache_line) == {offsets[k] \div cache_line : k \in 1..Len(offsets)} \cup {0}

offsets_global_coalescing(offsets, gpu) ==
    [l1 |-> Ratio(Cardinality(Lines(offsets, gpu.l1_cache_line)), Len(offsets)),
     l2 |-> Ratio(Cardinality(Lines(offsets, gpu.l2_cache_line)), Len(offsets)),
     replay |-> Ns(Cardinality(Lines(offsets, gpu.l1_cache_line)))]

\* f64::min
FMin(a, b) == IF Lt(b, a) THEN b ELSE a

\* global_coalescing, for sorted thread dimensions
CoalescingOf(thread_dims, gpu) ==
    offsets_global_coalescing(wrap_access_offsets(thread_dims, TRUE, gpu.wrap_size).offsets, gpu)

CoalescingMin(a, b) ==
    [l1 |-> FMin(a.l1, b.l1), l2 |-> FMin(a.l2, b.l2), replay |-> FMin(a.replay, b.replay)]

global_coalescing_sorted(thread_dims, gpu) ==
    IF thread_dims # <<>> /\ ~thread_dims[Len(thread_dims)].is_active_thread
    THEN CoalescingMin(CoalescingOf(thread_dims, gpu),
                       CoalescingOf(SubSeq(thread_dims, 1, Len(thread_dims) - 1), gpu))
    ELSE CoalescingOf(thread_dims, gpu)

global_coalescing(thread_dims, order, gpu) ==
    global_coalescing_sorted(sort_thread_dims(thread_dims, order, gpu.wrap_size), gpu)

\* info, for an access that is not to the shared memory
MemInfoOf(coalescing, gpu) ==
    [l2_miss_ratio |-> Ns(0),
     l1_coalescing |-> coalescing.l1,
     l2_coalescing |-> coalescing.l2,
     issue_replays |-> IF gpu.sm_major >= 5 THEN Ns(1) ELSE FMin(coalescing.replay, INFINITY),
     memory_transactions |-> FMin(coalescing.replay, INFINITY),
     access_shared |-> FALSE,
     access_global |-> TRUE]

\* analyse, for Operator::Ld with a tensor pattern on the global memory
analyse(order, sizes, tensor_dims, gpu) ==
    MemInfoOf(global_coalescing(tensor_thread_dims(<<0, 1>>, sizes, tensor_dims), order, gpu), gpu)

\* The devices, the functions and the sizes the analysis is called with.
Gpus ==
    [wrap_size : {2, 4, 8}, l1_cache_line : {4, 8}, l2_cache_line : {2, 4}, sm_major : {3, 5}]
Orders == {"INNER", "OUTER", "NONE"}
SizeRanges(gpu) ==
    {[min |-> gpu.wrap_size, max |-> gpu.wrap_size], [min |-> 2, max |-> 2],
     [min |-> 2, max |-> gpu.wrap_size]}
PatternStrides(gpu) == {1, gpu.l1_cache_line}

NoMemCall == [called |-> FALSE]
NoMemInfo == MemInfoOf([l1 |-> Ns(0), l2 |-> Ns(0), replay |-> Ns(0)], [sm_major |-> 0])

InitMemInfo ==
    /\ memcall = NoMemCall
    /\ meminfo = NoMemInfo

\* A call of analyse on the load of a function built as gen_function builds
\* it: d0 and d1 are thread dimensions, the pattern has a stride on d0.
Analyse(order, sizes, stride, gpu) ==
    /\ ~memcall.called
    /\ memcall' = [called |-> TRUE, order |-> order, sizes |-> sizes, stride |-> stride,
                   gpu |-> gpu]
    /\ meminfo' = analyse(order, sizes,
                          [d \in DimIds |-> IF d = 0 THEN [min |-> stride, gcd |-> stride]
                                            ELSE [min |-> 0, gcd |-> 0]], gpu)
    /\ UNCHANGED notMemInfo

NextMemInfo ==
    \E gpu \in Gpus, order \in Orders :
        \E s0 \in SizeRanges(gpu), s1 \in SizeRanges(gpu), stride \in PatternStrides(gpu) :
            Analyse(order, [d \in DimIds |-> IF d = 0 THEN s0 ELSE s1], stride, gpu)

(***************************************************************************)
(* telamon-cli: CommonOpt::config, the configuration of a search from the  *)
(* command line and the configuration file.                                *)
(***************************************************************************)
Timeouts == {None} \cup {Some(t) : t \in 0..MaxTimeout}

\* Option::or
OptionOr(a, b) == IF a.some THEN a ELSE b

\* Config::default(): no timeout.
ConfigDefault == [timeout |-> None]

\* What Config::from_path gives for the file: its configuration, or an
\* error when the file cannot be read or parsed.
ConfigFiles == [ok : {TRUE}, config : [timeout : Timeouts]]
                   \cup {[ok |-> FALSE, config |-> ConfigDefault]}

\* CommonOpt::config
OptConfig(config_path, file, timeout) ==
    IF config_path /\ ~file.ok THEN [ok |-> FALSE, config |-> ConfigDefault]
    ELSE [ok |-> TRUE,
          config |-> [timeout |-> OptionOr((IF config_path THEN file.config
                                            ELSE ConfigDefault).timeout, timeout)]]

NoOptCall == [called |-> FALSE, config_path |-> FALSE,
              file |-> [ok |-> FALSE, config |-> ConfigDefault], timeout |-> None]
NoOptRes == [ok |-> FALSE, config |-> ConfigDefault]

InitOpt ==
    /\ optcall = NoOptCall
    /\ optres = NoOptRes

\* A call of CommonOpt::config; file is what the configuration file holds
\* when --config is given.
CommonOptConfig(config_path, file, timeout) ==
    /\ ~optcall.called
    /\ optcall' = [called |-> TRUE, config_path |-> config_path, file |-> file,
                   timeout |-> timeout]
    /\ optres' = OptConfig(config_path, file, timeout)
    /\ UNCHANGED notOpt

NextOpt ==
    \/ \E timeout \in Timeouts : CommonOptConfig(FALSE, NoOptCall.file, timeout)
    \/ \E file \in ConfigFiles, timeout \in Timeouts : CommonOptConfig(TRUE, file, timeout)

(***************************************************************************)
(* gen_space (telamon-explorer/src/lib.rs): the exhaustive exploration of  *)
(* a search space, depth first.                                            *)
(***************************************************************************)
RECURSIVE SortedSeq(_)
SortedSeq(S) == IF S = {} THEN <<>> ELSE <<Min(S)>> \o SortedSeq(S \ {Min(S)})

\* The choices of a store that are still open.
OpenKeys(dom) == {k \in DOMAIN dom : Cardinality(dom[k]) > 1}

\* choice::default_list(space).next(): the first open choice in the default
\* order, as the list of the actions that decide it; the empty list stands
\* for None.
default_list_next(dom) ==
    IF OpenKeys(dom) = {} THEN <<>>
    ELSE [n \in 1..Cardinality(dom[Min(OpenKeys(dom))]) |->
             Restriction(Min(OpenKeys(dom)), {SortedSeq(dom[Min(OpenKeys(dom))])[n]})]

\* The cell of the function the builder gives, and the candidate of the
\* space built on it.
BuilderHeap == (1 :> [rc |-> 1, fun |-> InitFun])
BuilderCand ==
    CandidateNew(SearchSpaceNew(1, InitFun), BoundOf(SearchSpaceNew(1, InitFun).domain))

\* The decisions taken and the layouts lowered before the space is given
\* to gen_space.
StartLists ==
    UNION {[1..n -> {LowerLayout(m, <<0>>, <<1>>) : m \in Mems}
                        \cup {Restriction(k, s) : k \in InitDims,
                                                    s \in (SUBSET Values) \ {{}}}] :
           n \in 0..MaxStart}

InitGen ==
    /\ gpc = "none"
    /\ stack = <<>>
    /\ gheap = BuilderHeap
    /\ total = 0
    /\ nodes = <<>>
    /\ leaves = <<>>

\* gen_space is called: the stack holds Candidate::new(space, perf_bound).
GenStart(actions) ==
    /\ gpc = "none"
    /\ \E r \in {fold_actions(BuilderHeap, BuilderCand, actions)} :
          /\ r.ok
          /\ gheap' = r.heap
          /\ stack' = <<CandidateNew(r.cand.space, BoundOf(r.cand.space.domain))>>
    /\ gpc' = "loop"
    /\ UNCHANGED <<total, nodes, leaves>>
    /\ UNCHANGED notGen

\* An exploration that does not put the children of a node on the stack.
GenNodeNoExtend(r, c) ==
    /\ nodes' = Append(nodes, Snap(gheap, c))
    /\ stack' = SubSeq(stack, 1, Len(stack) - 1)
    /\ gheap' = ArcDrop(r.heap, c.space.ir_instance)
    /\ UNCHANGED leaves

\* The body of the loop for a candidate with an open choice: on_node is
\* called, and the children are put on the stack.
GenNode(r, c) ==
    /\ nodes' = Append(nodes, Snap(gheap, c))
    /\ stack' = SubSeq(stack, 1, Len(stack) - 1) \o r.res
    /\ gheap' = ArcDrop(r.heap, c.space.ir_instance)
    /\ UNCHANGED leaves

\* The body of the loop for a candidate without open choice: on_leaf is
\* called.
GenLeaf(c) ==
    /\ leaves' = Append(leaves, Snap(gheap, c))
    /\ stack' = SubSeq(stack, 1, Len(stack) - 1)
    /\ gheap' = ArcDrop(gheap, c.space.ir_instance)
    /\ UNCHANGED nodes

\* One turn of the loop: while let Some(candidate) = stack.pop()
GenStep ==
    /\ gpc = "loop"
    /\ stack # <<>>
    /\ total' = total + 1
    /\ \E candidate \in {stack[Len(stack)]} :
       \E choice \in {default_list_next(candidate.space.domain)} :
          IF choice # <<>>
          THEN \E r \in {apply_choice(gheap, candidate, choice)} : GenNode(r, candidate)
          ELSE GenLeaf(candidate)
    /\ UNCHANGED gpc
    /\ UNCHANGED notGen

\* stack.pop() returns None: gen_space returns.
GenDone ==
    /\ gpc = "loop"
    /\ stack = <<>>
    /\ gpc' = "returned"
    /\ UNCHANGED <<stack, gheap, total, nodes, leaves>>
    /\ UNCHANGED notGen

NextGen ==
    \/ \E actions \in StartLists : GenStart(actions)
    \/ GenStep
    \/ GenDone

\* ---------------------------------------------------------------------
\* The MPPA context: the pool of writeback buffers (backend/mppa/src/context.rs).

\* const EXECUTION_QUEUE_SIZE: usize = 32
EXECUTION_QUEUE_SIZE == 32

\* Context::new: the pool starts with EXECUTION_QUEUE_SIZE buffers.
InitMppa ==
    /\ writeback_slots = EXECUTION_QUEUE_SIZE
    /\ kpc = [w \in Workers |-> "idle"]
    /\ kchan = 0
    /\ kepc = "recv"
    /\ kernel_id = 0
    /\ dropped = 0

\* Context::setup_kernel, called by worker w on the way to `path`:
\* ATOMIC_KERNEL_ID.fetch_add(1), then writeback_slots.pop().unwrap(), which
\* panics on an empty pool.
setup_kernel(w, path) ==
    /\ kpc[w] = "idle"
    /\ kernel_id < MaxKernels
    /\ kernel_id' = kernel_id + 1
    /\ IF writeback_slots = 0
       THEN /\ kpc' = [kpc EXCEPT ![w] = "panicked"]
            /\ UNCHANGED writeback_slots
       ELSE /\ kpc' = [kpc EXCEPT ![w] = path]
            /\ writeback_slots' = writeback_slots - 1

\* Context::evaluate up to the execution of the kernel: the buffer stays in
\* kernel_args.
Evaluate(w) ==
    /\ setup_kernel(w, "evaluate")
    /\ UNCHANGED <<kchan, kepc, dropped>>
    /\ UNCHANGED notMppa

\* The end of Context::evaluate: kernel_args.pop() gives the buffer back and
\* writeback_slots.push(out_mem) returns it to the pool.
EvaluateReturn(w) ==
    /\ kpc[w] = "evaluate"
    /\ kpc' = [kpc EXCEPT ![w] = "idle"]
    /\ writeback_slots' = writeback_slots + 1
    /\ UNCHANGED <<kchan, kepc, kernel_id, dropped>>
    /\ UNCHANGED notMppa

\* AsyncEvaluator::add_dyn_kernel up to the send: `let (kernel, _) =
\* setup_kernel(..)` drops kernel_args, and the buffer with it.
AddDynKernel(w) ==
    /\ setup_kernel(w, "send")
    /\ dropped' = IF writeback_slots = 0 THEN dropped ELSE dropped + 1
    /\ UNCHANGED <<kchan, kepc>>
    /\ UNCHANGED notMppa

\* self.sender.send(..) on sync_channel(EXECUTION_QUEUE_SIZE): blocked while
\* the buffer is full.
MppaSend(w) ==
    /\ kpc[w] = "send"
    /\ kchan < EXECUTION_QUEUE_SIZE
    /\ kchan' = kchan + 1
    /\ kpc' = [kpc EXCEPT ![w] = "idle"]
    /\ UNCHANGED <<writeback_slots, kepc, kernel_id, dropped>>
    /\ UNCHANGED notMppa

\* The evaluation thread: recv.recv() ..
MppaRecv ==
    /\ kepc = "recv"
    /\ kchan > 0
    /\ kchan' = kchan - 1
    /\ kepc' = "call"
    /\ UNCHANGED <<writeback_slots, kpc, kernel_id, dropped>>
    /\ UNCHANGED notMppa

\* .. and callback.call(candidate, &mut Code { kernel, executor }).
MppaCall ==
    /\ kepc = "call"
    /\ kepc' = "recv"
    /\ UNCHANGED <<writeback_slots, kpc, kchan, kernel_id, dropped>>
    /\ UNCHANGED notMppa

NextMppa ==
    \/ \E w \in Workers : Evaluate(w)
    \/ \E w \in Workers : EvaluateReturn(w)
    \/ \E w \in Workers : AddDynKernel(w)
    \/ \E w \in Workers : MppaSend(w)
    \/ MppaRecv
    \/ MppaCall

\* ---------------------------------------------------------------------
\* Bounds::test_bound (telamon-cli/src/bin/tlcli.rs): the workers share the
\* counter num_tested and stop once it has reached num_runs.

InitTestBound ==
    /\ num_tested = 0
    /\ tpc = [w \in Workers |-> "loop"]
    /\ submitted = 0
    /\ descents = 0

\* if num_tested.fetch_add(1, SeqCst) >= self.num_runs { .. }
FetchAdd(w) ==
    /\ tpc[w] = "loop"
    /\ num_tested' = num_tested + 1
    /\ tpc' = [tpc EXCEPT ![w] = IF num_tested >= num_runs THEN "over"
                                 ELSE "descent"]
    /\ UNCHANGED <<submitted, descents>>
    /\ UNCHANGED notTestBound

\* if num_tested.fetch_sub(1, SeqCst) > self.num_runs { break; }
FetchSub(w) ==
    /\ tpc[w] = "over"
    /\ num_tested' = num_tested - 1
    /\ tpc' = [tpc EXCEPT ![w] = IF num_tested > num_runs THEN "break"
                                 ELSE "descent"]
    /\ UNCHANGED <<submitted, descents>>
    /\ UNCHANGED notTestBound

\* random_descent returns a leaf: evaluator.add_kernel(leaf, ..).
DescentSome(w) ==
    /\ tpc[w] = "descent"
    /\ submitted' = submitted + 1
    /\ tpc' = [tpc EXCEPT ![w] = "loop"]
    /\ UNCHANGED <<num_tested, descents>>
    /\ UNCHANGED notTestBound

\* random_descent returns None: num_tested.fetch_sub(1, SeqCst).
DescentNone(w) ==
    /\ tpc[w] = "descent"
    /\ descents < MaxDescents
    /\ descents' = descents + 1
    /\ num_tested' = num_tested - 1
    /\ tpc' = [tpc EXCEPT ![w] = "loop"]
    /\ UNCHANGED submitted
    /\ UNCHANGED notTestBound

NextTestBound ==
    \/ \E w \in Workers : FetchAdd(w)
    \/ \E w \in Workers : FetchSub(w)
    \/ \E w \in Workers : DescentSome(w)
    \/ \E w \in Workers : DescentNone(w)

Init ==
    /\ InitTree /\ InitAsync /\ InitLog /\ InitRuntime /\ InitCounter /\ InitChoice
    /\ InitOperator /\ InitSize /\ InitOffsets /\ InitMemInfo /\ InitOpt /\ InitGen /\ InitMppa /\ InitTestBound

\* config.create_eventlog() and config.create_log()
LogCreate(has_eventlog) ==
    /\ lpc = "create"
    /\ lpc' = "recv"
    /\ eventlog' = has_eventlog
    /\ UNCHANGED <<lqueue, lsent, larrived, lwritten>>
    /\ UNCHANGED notLog

\* The creation of a file fails: log returns the error.
LogCreateFails ==
    /\ lpc = "create"
    /\ lpc' = "failed"
    /\ lqueue' = <<>>
    /\ UNCHANGED <<eventlog, lsent, larrived, lwritten>>
    /\ UNCHANGED notLog

\* A thread sends its next message; send blocks while the channel is full.
LogSend(t) ==
    /\ lsent[t] < MaxLogMsgs
    /\ lpc \in {"create", "recv"}
    /\ Len(lqueue) < LOG_BUFFER_SIZE
    /\ lsent' = [lsent EXCEPT ![t] = @ + 1]
    /\ lqueue' = Append(lqueue, LogMessage(t, lsent[t] + 1))
    /\ larrived' = Append(larrived, LogMessage(t, lsent[t] + 1))
    /\ UNCHANGED <<lpc, eventlog, lwritten>>
    /\ UNCHANGED notLog

\* One turn of the loop of logger::log: a message is received and written.
LogWrite ==
    /\ lpc = "recv"
    /\ lqueue # <<>>
    /\ \E r \in {LogRecv(lqueue)} :
          /\ lqueue' = r.rest
          /\ lwritten' = IF LogFile(r.msg, eventlog) = "none" THEN lwritten
                         ELSE Append(lwritten, [msg |-> r.msg,
                                                file |-> LogFile(r.msg, eventlog)])
    /\ UNCHANGED <<lpc, eventlog, lsent, larrived>>
    /\ UNCHANGED notLog

\* One turn of the loop where the write fails: log returns the error and the
\* receiver is dropped.
LogWriteFails ==
    /\ lpc = "recv"
    /\ lqueue # <<>>
    /\ LogFile(LogRecv(lqueue).msg, eventlog) # "none"
    /\ lpc' = "failed"
    /\ lqueue' = <<>>
    /\ UNCHANGED <<eventlog, lsent, larrived, lwritten>>
    /\ UNCHANGED notLog

\* recv.recv() returns Err: every sender is gone and the channel is empty.
LogDone ==
    /\ lpc = "recv"
    /\ lqueue = <<>>
    /\ \A t \in LogSenders : lsent[t] = MaxLogMsgs
    /\ lpc' = "done"
    /\ UNCHANGED <<eventlog, lqueue, lsent, larrived, lwritten>>
    /\ UNCHANGED notLog

NextLog ==
    \/ \E e \in BOOLEAN : LogCreate(e)
    \/ LogCreateFails
    \/ \E t \in LogSenders : LogSend(t)
    \/ LogWrite
    \/ LogWriteFails
    \/ LogDone

WorkerStep(w) ==
    \/ \E b \in CandBounds : ExploreSome(w, b)
    \/ ExploreNone(w)
    \/ AddKernel(w)

EvaluatorStep ==
    \/ Recv
    \/ RecvDisconnected
    \/ \E run \in DeviceRuns : Eval(run)

NextAsync ==
    \/ \E w \in Workers : \E b \in CandBounds : ExploreSome(w, b)
    \/ \E w \in Workers : ExploreNone(w)
    \/ \E w \in Workers : AddKernel(w)
    \/ Recv
    \/ RecvDisconnected
    \/ \E run \in DeviceRuns : Eval(run)
    \/ DropSend
    \/ ScopeJoin
    \/ MonitorStop
    \/ MonitorEnd
    \/ PrintStats

SpecSearch == Init /\ [][NextSearch]_vars

SpecCandidate == Init /\ [][NextCandidate]_vars

SpecAsync == Init /\ [][NextAsync]_vars

SpecLog == Init /\ [][NextLog]_vars

SpecRuntime == Init /\ [][NextRuntime]_vars

SpecCounter == Init /\ [][NextCounter]_vars

SpecChoice == Init /\ [][NextChoice]_vars

SpecStore == Init /\ [][NextStore]_vars

SpecOperator == Init /\ [][NextOperator]_vars

SpecSize == Init /\ [][NextSize]_vars

SpecTestBound == Init /\ [][NextTestBound]_vars

SpecMppa == Init /\ [][NextMppa]_vars

\* gen_space runs on its thread, and its loop is not stopped for ever: a
\* turn of the loop (the step that counts one more candidate) is taken
\* while the stack holds a candidate, and gen_space returns once it is empty.
LoopTurn == gpc = "loop" /\ stack # <<>> /\ total' = total + 1

SpecGen == Init /\ [][NextGen]_vars /\ WF_total(LoopTurn) /\ WF_vars(GenDone)

SpecOpt == Init /\ [][NextOpt]_vars

SpecMemInfo == Init /\ [][NextMemInfo]_vars

SpecOffsets == Init /\ [][NextOffsets]_vars

\* The threads are operating-system threads: each one that can take a step
\* eventually takes one.
SpecAsyncFair ==
    /\ Init
    /\ [][NextAsync]_vars
    /\ \A w \in Workers : WF_vars(WorkerStep(w))
    /\ WF_vars(EvaluatorStep)
    /\ WF_vars(DropSend \/ ScopeJoin)
    /\ WF_vars(MonitorEnd)

(***************************************************************************)
(* Properties of the search space and of the candidates.                   *)
(***************************************************************************)
RECURSIVE Ancestors(_)
Ancestors(i) ==
    IF parentOf[i] = 0 THEN {} ELSE {parentOf[i]} \cup Ancestors(parentOf[i])

Narrower(child, parent) ==
    \A k \in DOMAIN parent : k \in DOMAIN child /\ child[k] \subseteq parent[k]

\* Every reference to a cell is counted, and every cell is referenced.
HeapConsistent ==
    /\ \A i \in 1..Len(cands) : cands[i].space.ir_instance \in DOMAIN heap
    /\ \A a \in DOMAIN heap :
           heap[a].rc = Cardinality({i \in 1..Len(cands) :
                                         cands[i].space.ir_instance = a})

\* C1: when an action applies, the domain of every choice in the resulting
\* space is a subset of its domain in the space it was applied to, and so
\* along any sequence of applied actions.
C1_DomainsOnlyNarrow ==
    /\ \A i \in 1..Len(cands) : \A p \in Ancestors(i) :
           Narrower(cands[i].space.domain, cands[p].space.domain)
    /\ (last.op \in {"apply_decision", "apply_choice"}) =>
           \A n \in 1..Len(last.res) : Narrower(last.res[n].domain, last.before.domain)

\* C1 witness: a candidate two actions away from the root, one of them a
\* layout lowering, whose domains are strictly narrower than the root's.
C1_Witness ==
    \E i \in 1..Len(cands) :
        /\ cands[i].depth = 2
        /\ \E n \in 1..2 : cands[i].actions[n].type = "LowerLayout"
        /\ \E k \in DOMAIN cands[1].space.domain :
               cands[i].space.domain[k] # cands[1].space.domain[k]

C3_ReceiverUnchanged ==
    [][\A i \in 1..Len(cands) :
           /\ i <= Len(cands')
           /\ cands'[i] = cands[i]
           /\ cands[i].space.ir_instance \in DOMAIN heap'
           /\ heap'[cands[i].space.ir_instance].fun
                  = heap[cands[i].space.ir_instance].fun]_vars

\* C3 witness: a layout lowering has been applied to a candidate whose
\* function is shared with another candidate.
C3_Witness ==
    /\ last.op = "apply_decision"
    /\ last.ok
    /\ last.choice[1].type = "LowerLayout"
    /\ \E j \in 1..(Len(cands) - 1) :
           /\ j # last.parent
           /\ cands[j].space.ir_instance = cands[last.parent].space.ir_instance

\* The space an action produces from a space, and whether it produces one.
NewSpace(snap, a) ==
    IF a.type = "Action"
    THEN ApplyDecisions(snap.domain, <<a>>)
    ELSE LET lo == DimMapLowerLayout(snap.fun, a.mem, a.st_dims, a.ld_dims)
         IN IF lo.ok
            THEN ApplyDecisions(DomainAlloc(snap.domain, lo.new_objs), lo.actions)
            ELSE [ok |-> FALSE, domain |-> snap.domain]

\* C4: apply_choice returns one child per action that produces a new space,
\* in the order of the actions, none for an infeasible action, and the empty
\* list when every action is infeasible; it returns no error.
C4_ApplyChoiceChildren ==
    (last.op = "apply_choice") =>
        LET Feasible(a) == NewSpace(last.before, a).ok
            feas == SelectSeq(last.choice, Feasible)
        IN /\ last.ok
           /\ Len(last.res) = Len(feas)
           /\ \A n \in 1..Len(feas) :
                  /\ last.res[n].actions = <<feas[n]>> \o last.before.actions
                  /\ last.res[n].domain = NewSpace(last.before, feas[n]).domain

\* C4 witness: a choice whose first action is infeasible and a later one
\* feasible.
C4_Witness ==
    /\ last.op = "apply_choice"
    /\ Len(last.choice) >= 2
    /\ ~NewSpace(last.before, last.choice[1]).ok
    /\ Len(last.res) >= 1

\* C5: replaying the recorded action list of a candidate on the initial
\* space succeeds and gives a candidate with the same domains, the same
\* bound and the same action list.
C5_ReplayFidelity ==
    (last.op = "replay") =>
        /\ last.ok
        /\ Len(last.res) = 1
        /\ last.res[1].domain = last.before.domain
        /\ last.res[1].bound = last.before.bound
        /\ last.res[1].actions = last.before.actions

C7_WorkersSeeDisconnect ==
    /\ [][\A w \in Workers :
              (wpc[w] = "add_kernel" /\ ~RecvAlive /\ wpc'[w] # wpc[w]) =>
                  /\ wpc'[w] \in {"done", "panicked"}
                  /\ queue' = queue
                  /\ sent' = sent]_vars
    /\ (~RecvAlive) ~> (\A w \in Workers : Terminated(w))

\* C7 witness: the receiver is gone and an explorer thread has left its loop
\* on the send that failed.
C7_Witness ==
    /\ ~RecvAlive
    /\ \E w \in Workers : wpc[w] = "panicked"

\* C8: the callback of a candidate is called at most once, and when
\* async_eval is over it has returned, the evaluation thread has left its
\* loop on the disconnect, and every candidate that was sent has been
\* received and has had its callback called once.
C8_EvaluatorDrains ==
    /\ \A id \in 1..MaxExplored : Len(called[id]) <= 1
    /\ (mpc \in {"returned", "panicked"}) =>
           /\ mpc = "returned"
           /\ epc = "done"
           /\ \A id \in sent : id \in received /\ Len(called[id]) = 1

\* C9: the channel never holds more than EVAL_BUFFER_SIZE candidates, and a
\* candidate that was sent stays in the channel, once, until the evaluation
\* thread receives it.
C9_BackPressure ==
    /\ Len(queue) <= EVAL_BUFFER_SIZE
    /\ \A m, n \in 1..Len(queue) : m # n => queue[m].id # queue[n].id
    /\ \A id \in sent \ received : \E n \in 1..Len(queue) : queue[n].id = id

\* C10: a candidate whose evaluation the device fails has its callback
\* called with INFINITY, the evaluation thread keeps running, and
\* async_eval does not panic.
C10_DeviceErrorAbsorbed ==
    /\ \A id \in failed : called[id] = <<INFINITY>>
    /\ failed # {} => epc # "panicked" /\ mpc # "panicked"

\* C11: the executor is used by the evaluation thread only: no use of it is
\* made by an explorer thread.
C11_ExecutorOwnedByEvaluator ==
    \A o \in dev_ops : o.thread = "evaluator"

\* C13 as stated: when the driver returns, its result is a candidate whose
\* evaluation is minimal among all the candidates evaluated, and None when
\* no candidate was evaluated.
C13_BestOfAllEvaluated ==
    Returned =>
        IF \A id \in 1..MaxExplored : called[id] = <<>>
        THEN mbest = NoBest
        ELSE /\ mbest # NoBest
             /\ called[mbest.id] = <<mbest.eval>>
             /\ \A id \in 1..MaxExplored :
                    called[id] # <<>> => ~Lt(called[id][1], mbest.eval)

\* C13: when the driver returns, its result is a candidate whose evaluation
\* is minimal among the evaluations that reached the monitor before it
\* stopped, and None when none reached it.
C13_BestOfSeen ==
    Returned =>
        IF mseen = {}
        THEN mbest = NoBest
        ELSE /\ mbest.id \in mseen
             /\ called[mbest.id] = <<mbest.eval>>
             /\ \A id \in mseen : ~Lt(called[id][1], mbest.eval)

\* C13 witness: the driver has returned the better of two candidates, the
\* second one evaluated.
C13_Witness ==
    /\ Returned
    /\ \E id \in mseen : id < mbest.id /\ Lt(mbest.eval, called[id][1])

(***************************************************************************)
(* Properties of the logger.                                               *)
(***************************************************************************)
RECURSIVE Written(_, _)
Written(msgs, has_eventlog) ==
    IF msgs = <<>> THEN <<>>
    ELSE IF LogFile(Head(msgs), has_eventlog) = "none"
         THEN Written(Tail(msgs), has_eventlog)
         ELSE <<[msg |-> Head(msgs), file |-> LogFile(Head(msgs), has_eventlog)]>>
              \o Written(Tail(msgs), has_eventlog)

\* C12: the one logger thread writes the messages in the order they entered
\* the channel, so that the messages of one sender are written in the order
\* it sent them.
C12_LogOrder ==
    /\ Len(lwritten) <= Len(Written(larrived, eventlog))
    /\ lwritten = SubSeq(Written(larrived, eventlog), 1, Len(lwritten))
    /\ \A m, n \in 1..Len(lwritten) :
           (m < n /\ lwritten[m].msg.from = lwritten[n].msg.from) =>
               lwritten[m].msg.seq < lwritten[n].msg.seq

\* C12 witness: messages of two senders, interleaved, have been written.
C12_Witness ==
    /\ Len(lwritten) >= 3
    /\ lwritten[1].msg.from # lwritten[2].msg.from
    /\ lwritten[3].msg.from = lwritten[1].msg.from

(***************************************************************************)
(* Properties of Context::eval_runtime.                                    *)
(***************************************************************************)
\* The last call ran the thunk at least once in the mode that skips bad
\* candidates, and the first execution succeeded.
TimedInFindBest ==
    /\ rcall.called
    /\ rcall.skip
    /\ rres.runs >= 1
    /\ rcall.run.first.ok

\* C14: in the mode that looks for the best candidate, a candidate is
\* abandoned after its first execution, without further executions, exactly
\* when its first run time is above SKIP_THRESHOLD times the run time of the
\* best candidate so far; otherwise it goes on to the full measurement.
C14_SkipAboveBest ==
    TimedInFindBest =>
        ((rres.runs = 1) <=>
            SkipsAfterFirstOnBest(ticks_to_ns(rcall.run.first.ticks),
                                  rcall.bound, rcall.current_best))

\* The last call went on to the measurement and every execution succeeded.
FullyMeasured == rcall.called /\ rres.ok /\ rres.runs >= 2

\* The run times of the n executions of the measurement.
Sample(i) == ticks_to_ns(rcall.run.rest[i].ticks)

\* The median of the first n: the run time at position n / 2, counted from
\* 0, once they are in increasing order.
MedianOf(n) ==
    CHOOSE m \in {Sample(i) : i \in 1..n} :
        /\ Cardinality({i \in 1..n : Sample(i) < m}) <= n \div 2
        /\ Cardinality({i \in 1..n : Sample(i) <= m}) > n \div 2

\* Of the samples equal to v among the first n, the number that is among the
\* k closest to m; at equal distance the smaller run time is the closer.
KeptOf(v, n, k, m) ==
    Max(0, Least(Cardinality({i \in 1..n : Sample(i) = v}),
                 k - Cardinality({i \in 1..n :
                        \/ Abs(Sample(i) - m) < Abs(v - m)
                        \/ Abs(Sample(i) - m) = Abs(v - m) /\ Sample(i) < v})))

\* The sum of the k samples closest to the median of the first n.
SumOfKept(n, k) ==
    SumOver([v \in {Sample(i) : i \in 1..n} |-> v * KeptOf(v, n, k, MedianOf(n))],
            {Sample(i) : i \in 1..n})

\* The value is the mean of the k samples closest to the median of n.
IsMeanOfKept(val, n, k) ==
    ~val.inf /\ val.num * k = SumOfKept(n, k) * val.den

\* n is the number of executions a first run time of t0 allows: NUM_EVALS,
\* or fewer when NUM_EVALS executions would take more than a second, but
\* never less than one.
AllowedEvals(n, t0) ==
    /\ n \in 1..NUM_EVALS
    /\ n = NUM_EVALS => t0 <= (10^9) \div NUM_EVALS
    /\ n < NUM_EVALS => (n = 1 \/ n * t0 <= 10^9) /\ (n + 1) * t0 > 10^9

\* C15 as stated: a candidate that is not abandoned early is executed
\* NUM_EVALS times, the NUM_OUTLIERS samples furthest from the median are
\* discarded and the mean of the NUM_EVALS - NUM_OUTLIERS others is returned.
C15_TwentyRunsSixteenKept ==
    FullyMeasured =>
        /\ rres.runs = 1 + NUM_EVALS
        /\ IsMeanOfKept(rres.val, NUM_EVALS, NUM_EVALS - NUM_OUTLIERS)

\* C15, amended: a candidate that is not abandoned early is executed n
\* times, where n is NUM_EVALS or, for a candidate whose first run time
\* makes NUM_EVALS executions longer than a second, the number of executions
\* that fit in a second (at least one); all but the NUM_OUTLIERS samples
\* furthest from the median (at least one sample) are kept and their mean is
\* returned.
C15_MeanOfClosestToMedian ==
    FullyMeasured =>
        /\ AllowedEvals(rres.runs - 1, ticks_to_ns(rcall.run.first.ticks))
        /\ IsMeanOfKept(rres.val, rres.runs - 1,
                        IF rres.runs - 1 > NUM_OUTLIERS
                        THEN rres.runs - 1 - NUM_OUTLIERS ELSE 1)

\* A slow candidate was measured with fewer executions, some of them far
\* from the median and discarded.
C15_Witness ==
    /\ FullyMeasured
    /\ rres.runs - 1 \in (NUM_OUTLIERS + 1)..(NUM_EVALS - 1)
    /\ \E i \in 1..(rres.runs - 1) : Sample(i) > MedianOf(rres.runs - 1)
    /\ \E i \in 1..(rres.runs - 1) : Sample(i) < MedianOf(rres.runs - 1)
    /\ Lt(rres.val, Ns(MedianOf(rres.runs - 1)))

(***************************************************************************)
(* Properties of the counters.                                             *)
(***************************************************************************)
\* The least and the greatest value a site can contribute: the value counts
\* for the minimum once the increment is certain, and for the maximum until
\* the increment is ruled out.
SiteLo(i) == IF cincr[i] = {TRUE} THEN cval[i].min ELSE Zero(cdef.kind)
SiteHi(i) == IF TRUE \in cincr[i] THEN cval[i].max ELSE Zero(cdef.kind)

RECURSIVE LoOver(_)
LoOver(n) == IF n = 0 THEN Zero(cdef.kind) ELSE Combine(cdef.kind, LoOver(n - 1), SiteLo(n))

RECURSIVE HiOver(_)
HiOver(n) == IF n = 0 THEN Zero(cdef.kind) ELSE Combine(cdef.kind, HiOver(n - 1), SiteHi(n))

WithinSites ==
    /\ LoOver(NumSites) <= cnt.min
    /\ ~cdef.is_half => cnt.min <= cnt.max /\ cnt.max <= HiOver(NumSites)

Swapped(v) == IF v = Arg(0) THEN Arg(1) ELSE IF v = Arg(1) THEN Arg(0) ELSE v
SwappedIn(inst, dup) ==
    /\ dup.choice = inst.choice
    /\ Len(dup.vars) = Len(inst.vars)
    /\ \A i \in 1..Len(inst.vars) : dup.vars[i] = Swapped(inst.vars[i])

\* The registered actions that apply to the symmetric, in order.
Applicable == SelectSeq(on_change, LAMBDA on : on.action.kind \notin {"FilterSelf", "RemoteFilter"})

\* dup is the action on for the symmetric: the same action, the arguments
\* swapped wherever a variable occurs, and the reference to the value of
\* the choice inverted.
IsSymmetricOf(on, dup) ==
    /\ dup.action.kind = on.action.kind
    /\ Len(dup.forall_vars) = Len(on.forall_vars)
    /\ \A i \in 1..Len(on.forall_vars) :
          /\ dup.forall_vars[i].set = on.forall_vars[i].set
          /\ dup.forall_vars[i].param = Swapped(on.forall_vars[i].param)
    /\ on.action.kind = "Trigger" =>
          /\ dup.action.inverse_self_cond = ~on.action.inverse_self_cond
          /\ dup.action.id = on.action.id
          /\ dup.action.condition.self_condition = on.action.condition.self_condition
          /\ Len(dup.action.condition.inputs) = Len(on.action.condition.inputs)
          /\ \A i \in 1..Len(on.action.condition.inputs) :
                SwappedIn(on.action.condition.inputs[i], dup.action.condition.inputs[i])
    /\ on.action.kind \in {"IncrCounter", "UpdateCounter"} =>
          /\ SwappedIn(on.action.counter, dup.action.counter)
          /\ \A v \in EnumValues :
                (v \in dup.action.incr_condition) <=>
                    \E w \in on.action.incr_condition : InverseValue(w) = v
          /\ ("INNER" \in on.action.incr_condition) <=> ("OUTER" \in dup.action.incr_condition)
    /\ on.action.kind = "IncrCounter" =>
          /\ dup.action.value.code = on.action.value.code
          /\ ~on.action.value.code =>
                SwappedIn(on.action.value.instance, dup.action.value.instance)
    /\ on.action.kind = "UpdateCounter" =>
          SwappedIn(on.action.incr, dup.action.incr)

\* C17: for a symmetric choice of two arguments, every on-change action to
\* which applies_to_symmetric answers true is generated a second time for
\* the symmetric, with the two arguments swapped and the references to the
\* value of the choice inverted: the flag on the self condition of a trigger
\* is negated, the increment condition of IncrCounter and UpdateCounter is
\* inverted; the other actions are not generated a second time.
C17_SymmetricActions ==
    sym_change # <<>> =>
        /\ ychoice.symmetric
        /\ Len(sym_change) = Len(Applicable)
        /\ \A i \in 1..Len(Applicable) : IsSymmetricOf(Applicable[i], sym_change[i])

\* A symmetric choice with a trigger, a counter action and a filter: the
\* first two have been generated for the symmetric, with another increment
\* condition for the counter.
C17_Witness ==
    /\ sym_change # <<>>
    /\ Len(sym_change) < Len(on_change)
    /\ \E i \in 1..Len(sym_change) :
          /\ sym_change[i].action.kind \in {"IncrCounter", "UpdateCounter"}
          /\ sym_change[i].action.incr_condition = {"OUTER"}
          /\ sym_change[i].action.counter.vars = <<Arg(0), Forall(0)>>

AcceptedWithRounding ==
    /\ ocall.called
    /\ ores.ok
    /\ ocall.op.kind \in {"BinOp", "Mul", "Mad"}

\* The rounding mode is Exact on integers and a rounding variant on floats.
RoundingFitsType ==
    /\ ocall.op.lhs.type = "I" => ocall.op.rounding = "Exact"
    /\ ocall.op.lhs.type = "F" => ocall.op.rounding # "Exact"

C20_DivisorPositiveSimplified ==
    zpc = "size" =>
        /\ size.divisor > 0
        /\ \A g \in 2..(2 ^ WordBits - 1) :
              ~(size.factor % g = 0 /\ size.divisor % g = 0)

OffsetsReturned == offcall.called /\ ~offres.panicked

\* The number of threads the dimensions of the call hold: the product of
\* the sizes of the bases, at their largest when the partial dimension is
\* listed.
RECURSIVE NumThreads(_, _)
NumThreads(dims, i) ==
    IF i > Len(dims) THEN 1
    ELSE IF dims[i].is_partial_dim THEN NumThreads(dims, i + 1)
    ELSE (IF \E j \in 1..Len(dims) : dims[j].id = dims[i].id /\ dims[j].is_partial_dim
          THEN dims[i].size.max ELSE dims[i].size.min) * NumThreads(dims, i + 1)

\* The index of dimension i for the k-th thread, when no dimension is
\* partial: the first dimension varies fastest.
RECURSIVE Below(_, _)
Below(dims, i) == IF i = 1 THEN 1 ELSE dims[i - 1].size.min * Below(dims, i - 1)

DigitOf(dims, i, k) == (k \div Below(dims, i)) % dims[i].size.min

\* The two dimensions of size [2..4] and of strides 0 and 1, listed as the
\* base of 1, the base of 0, the partial of 0 and the partial of 1.
PartialDimsExample ==
    <<ThreadDimInfo(1, TRUE, FALSE, [min |-> 2, max |-> 4], [min |-> 1, gcd |-> 1]),
      ThreadDimInfo(0, TRUE, FALSE, [min |-> 2, max |-> 4], [min |-> 0, gcd |-> 0]),
      ThreadDimInfo(0, TRUE, TRUE, [min |-> 2, max |-> 4], [min |-> 0, gcd |-> 0]),
      ThreadDimInfo(1, TRUE, TRUE, [min |-> 2, max |-> 4], [min |-> 1, gcd |-> 1])>>

\* C23: wrap_access_offsets returns the offsets of the threads of a wrap
\* relative to the first thread: the first entry is 0 and there are at most
\* wrap_size entries, one per thread of the dimensions; the first listed
\* dimension varies fastest (without partial dimension, entry k is the sum
\* over the dimensions of stride times the digit of k for the dimension);
\* a partial dimension has an index other than 0 only with its base at its
\* last minimal index, size.min - 1; and the dimensions of size [2..4] and
\* strides 0 and 1, listed as base 1, base 0, partial 0, partial 1, give
\* exactly 0,1,0,1,0,1,0,1,2,2,2,2,3,3,3,3 in a wrap of at least 16 threads.
C23_WrapAccessOffsets ==
    OffsetsReturned =>
        /\ offres.offsets[1] = 0
        /\ Len(offres.offsets) <= offcall.wrap_size
        /\ Len(offres.offsets) =
              IF NumThreads(offcall.thread_dims, 1) < offcall.wrap_size
              THEN NumThreads(offcall.thread_dims, 1) ELSE offcall.wrap_size
        /\ (\A i \in 1..Len(offcall.thread_dims) : ~offcall.thread_dims[i].is_partial_dim) =>
              \A k \in 1..Len(offres.offsets) :
                  offres.offsets[k] =
                      OffsetFrom(offcall.thread_dims,
                                 [i \in 1..Len(offcall.thread_dims) |->
                                     DigitOf(offcall.thread_dims, i, k - 1)],
                                 offcall.use_gcd, 1)
        /\ \A k \in 1..Len(offres.visited) :
              \A i \in 1..Len(offcall.thread_dims) :
                  (offcall.thread_dims[i].is_partial_dim /\ offres.visited[k][i] > 0) =>
                      \E j \in 1..(i - 1) :
                          /\ offcall.thread_dims[j].id = offcall.thread_dims[i].id
                          /\ ~offcall.thread_dims[j].is_partial_dim
                          /\ offres.visited[k][j] = offcall.thread_dims[j].size.min - 1
        /\ (offcall.thread_dims = PartialDimsExample /\ ~offcall.use_gcd
                /\ offcall.wrap_size >= 16) =>
              offres.offsets = <<0, 1, 0, 1, 0, 1, 0, 1, 2, 2, 2, 2, 3, 3, 3, 3>>

\* The call of the example has returned, in a wrap of 32 threads.
C23_Witness ==
    /\ OffsetsReturned
    /\ offcall.thread_dims = PartialDimsExample
    /\ ~offcall.use_gcd
    /\ offcall.wrap_size = 32
    /\ Len(offres.offsets) = 16

\* The load of gen_function has been analysed: two thread dimensions of the
\* size of a wrap, and a stride of one L1 cache line on the first.
AnalysedTestLoad ==
    /\ memcall.called
    /\ memcall.sizes[0] = [min |-> memcall.gpu.wrap_size, max |-> memcall.gpu.wrap_size]
    /\ memcall.sizes[1] = [min |-> memcall.gpu.wrap_size, max |-> memcall.gpu.wrap_size]
    /\ memcall.stride = memcall.gpu.l1_cache_line

C24_CommandLineTimeoutWins ==
    (optcall.called /\ optres.ok) =>
        /\ optcall.timeout.some => optres.config.timeout = optcall.timeout
        /\ (~optcall.timeout.some /\ optcall.config_path) =>
              optres.config.timeout = optcall.file.config.timeout

(***************************************************************************)
(* Properties of launch_search.                                            *)
(***************************************************************************)
\* C25: print_stats is called on the candidate store only after the monitor
\* thread, every explorer thread and the evaluation thread have terminated:
\* once it has been called no thread is left to explore or update the store.
C25_StatsAfterThreads ==
    stats_printed =>
        /\ mon = "stopped"
        /\ \A w \in Workers : Terminated(w)
        /\ epc \in {"done", "panicked"}
        /\ ~ENABLED (\E w \in Workers : WorkerStep(w))
        /\ ~ENABLED EvaluatorStep

\* print_stats has been called after a search whose monitor received the
\* evaluation of a candidate.
C25_Witness ==
    /\ stats_printed
    /\ mseen # {}
    /\ sent # {}

(***************************************************************************)
(* Properties of the depth of a candidate.                                 *)
(***************************************************************************)
\* C30: for every candidate built by Candidate::new or by
\* Candidate::with_actions and then extended by successful calls of
\* apply_decision, the depth is the number of entries of the action list:
\* Candidate::new gives the depth 0 and an empty list, and each successful
\* apply_decision gives a child whose depth is one more than its parent's
\* and whose list is the parent's with the applied action added.
C30_DepthIsActionCount ==
    /\ \A i \in 1..Len(cands) : cands[i].depth = Len(cands[i].actions)
    /\ cands[1].depth = 0 /\ cands[1].actions = <<>>
    /\ (last.op = "apply_decision" /\ last.ok) =>
          /\ last.res[1].depth = last.before.depth + 1
          /\ last.res[1].actions = last.choice \o last.before.actions
          /\ cands[Len(cands)].depth = cands[last.parent].depth + 1

\* A candidate built by with_actions from two actions has been extended by
\* apply_decision: its child has the depth 3.
C30_Witness ==
    /\ last.op = "apply_decision" /\ last.ok
    /\ last.parent # 1
    /\ parentOf[last.parent] = 0
    /\ cands[Len(cands)].depth = 3

(***************************************************************************)
(* Properties of gen_space.                                                *)
(***************************************************************************)
\* The action lists of the candidates reachable from a store by applying,
\* again and again, a feasible action of the next choice.
RECURSIVE ReachableFrom(_, _)
ChildrenOf(dom, actions) ==
    {[domain |-> ApplyDecisions(dom, <<a>>).domain, actions |-> <<a>> \o actions] :
        a \in {b \in {default_list_next(dom)[n] : n \in 1..Len(default_list_next(dom))} :
                  ApplyDecisions(dom, <<b>>).ok}}

ReachableFrom(dom, actions) ==
    {[domain |-> dom, actions |-> actions]}
        \cup UNION {ReachableFrom(c.domain, c.actions) : c \in ChildrenOf(dom, actions)}

\* The candidates visited so far, and the one gen_space started from.
Visited == nodes \o leaves
VisitedSet == {[domain |-> Visited[i].domain, actions |-> Visited[i].actions] :
                  i \in 1..Len(Visited)}
StartDomain == IF nodes # <<>> THEN nodes[1].domain ELSE leaves[1].domain

\* What holds of the visits at every moment, and once gen_space has
\* returned.
GenVisitsOnce ==
    /\ \A i, j \in 1..Len(Visited) : Visited[i].actions = Visited[j].actions => i = j
    /\ \A i \in 1..Len(nodes) : OpenKeys(nodes[i].domain) # {}
    /\ \A i \in 1..Len(leaves) : OpenKeys(leaves[i].domain) = {}
    /\ total = Len(Visited)
    /\ Visited # <<>> => VisitedSet \subseteq ReachableFrom(StartDomain, <<>>)
    /\ gpc = "returned" =>
          /\ stack = <<>>
          /\ VisitedSet = ReachableFrom(StartDomain, <<>>)

\* C26: gen_space explores the full search space and terminates: every
\* candidate reachable from the initial space by successively applying the
\* feasible actions of the next choice of the default order is visited
\* exactly once, on_node is called once for each visited candidate that
\* still has an open choice and on_leaf once for each that has none, and
\* the stack eventually becomes empty, gen_space returning.
C26_GenSpaceExploresAll ==
    /\ []GenVisitsOnce
    /\ (gpc = "loop") ~> (gpc = "returned" /\ stack = <<>>)

\* gen_space has returned after it visited the twelve candidates of the
\* space of two open choices: the initial one, three with one choice left,
\* and six leaves.
C26_Witness ==
    /\ gpc = "returned"
    /\ Len(nodes) = 4
    /\ Len(leaves) = 6

\* The run times the evaluation thread has handed to callbacks so far.
ReturnedRuntimes ==
    UNION {{called[i][k] : k \in 1..Len(called[i])} : i \in DOMAIN called}

\* The best run time returned so far: +infinity before any, then the minimum.
BestReturned ==
    IF \A r \in ReturnedRuntimes : r.inf THEN INFINITY
    ELSE CHOOSE m \in ReturnedRuntimes : \A r \in ReturnedRuntimes : Ge(r, m)

\* The evaluation thread finishes the evaluation of the candidate it holds.
EvalReturns == epc = "eval" /\ epc' # "eval"

\* C27: in the mode that looks for the best candidate, a candidate whose
\* bound is greater than or equal to the best run time returned so far by the
\* evaluation thread (+infinity at first, then the minimum of the run times
\* returned) is not executed on the device, whatever the device would have
\* answered, and its callback receives +infinity.
C27_CutOnBound ==
    [][(EvalReturns /\ Ge(Ns(ecand.bound), BestReturned)) =>
          /\ \A run \in DeviceRuns :
                eval_runtime(run, ecand.bound, best_eval, TRUE) = Ok(INFINITY, 0)
          /\ called' = [called EXCEPT ![ecand.id] = Append(@, INFINITY)]
          /\ dev_ops' = dev_ops
          /\ epc' = "recv"]_vars

\* A candidate was cut on its bound after a finite run time had been
\* returned: its callback received +infinity.
C27_Witness ==
    /\ ~best_eval.inf
    /\ \E i \in DOMAIN called :
          /\ called[i] # <<>>
          /\ called[i][Len(called[i])] = INFINITY
          /\ \E j \in DOMAIN called : j # i /\ called[j] # <<>>
                                       /\ ~called[j][1].inf


\* The kernels set up whose evaluation is not over: held by a worker, in
\* the channel, or in the hands of the evaluation thread.
KernelsInFlight ==
    Cardinality({w \in Workers : kpc[w] \in {"evaluate", "send"}})
        + kchan + (IF kepc = "call" THEN 1 ELSE 0)

\* C28: the writeback buffers of the MPPA context are conserved: the free
\* buffers and the kernels in flight always number EXECUTION_QUEUE_SIZE, and
\* setup_kernel never finds the pool empty.
C28_SlotsConserved ==
    /\ writeback_slots + KernelsInFlight = EXECUTION_QUEUE_SIZE
    /\ \A w \in Workers : kpc[w] # "panicked"


\* C29: whatever the interleaving of the workers' fetch_add and fetch_sub
\* on num_tested, the candidates submitted for evaluation by all the workers
\* together never number more than num_runs.
C29_AtMostNumRuns == submitted <= num_runs

====
